---- MODULE Spec2Model ----
(***************************************************************************)
(* Model of cloud_connectors: the S3 storage adapter                        *)
(* (cloud_connectors/aws/s3.py) and the construction of the S3 and         *)
(* database clients (cloud_connectors/aws/redshift.py).                     *)
(*                                                                         *)
(* The provider (boto3 / S3) is modelled as an object store: a mapping     *)
(* bucket -> key -> object.  Every adapter method is an operator that      *)
(* takes the store and returns the outcome of the method: the exception    *)
(* that reaches the caller, the returned value, the new store and the      *)
(* provider calls it issued.  Keys and prefixes are strings, modelled as   *)
(* sequences of characters.                                                *)
(***************************************************************************)
EXTENDS Integers, Sequences, FiniteSets, TLC

VARIABLES
    store,      \* provider state: bucket -> key -> object
    fs,         \* local file system: local path -> content
    last,       \* the last adapter call: method, arguments, outcome
    calls,      \* provider calls issued by the last adapter call, in order
    s3client,   \* the S3 Client object (aws/s3.py)
    dbclient,   \* the database Client object (aws/redshift.py, database/postgres.py)
    db,         \* the database the client is connected to
    retried     \* the last call of a function wrapped by connection_retry

vars == <<store, fs, last, calls, s3client, dbclient, db, retried>>

----------------------------------------------------------------------------
(* Bounds and value sets *)

\* Cap on the number of objects the store holds (the store is unbounded).
MaxObjects == 2

ExistingBuckets == {"b1", "b2"}
\* "nb" is a well-formed name of no bucket, "" is not a bucket name at all.
BucketNames == ExistingBuckets \cup {"nb", ""}

Keys == {<<"a", "b">>, <<"b">>}
Prefixes == {<<>>, <<"a">>, <<"b">>}
\* path_destination omitted (None): Python treats None and "" alike in
\* `path_destination if path_destination else path_source`.
Omitted == <<>>

\* Object contents are byte strings.
Bodies == {<<120>>, <<121, 121>>}
NoBytes == <<>>
DefaultCType == "binary/octet-stream"
CTypes == {DefaultCType, "application/json"}

NoObj == [body |-> NoBytes, ctype |-> "none"]
Objects == [body : Bodies, ctype : CTypes]

\* Payloads handed to write(): bytes, or a value that is no bytes (a dict).
Payloads == [type : {"bytes"}, data : Bodies] \cup {[type |-> "dict", data |-> NoBytes]}

\* Python dicts are functions from their keys.
EmptyDict == [k \in {} |-> ""]
Put(d, k, v) == [x \in (DOMAIN d) \cup {k} |-> IF x = k THEN v ELSE d[x]]
Get(d, k, default) == IF k \in DOMAIN d THEN d[k] ELSE default

\* Errors the provider may answer to any request, whatever the store.
Faults == {"none", "AccessDenied"}

EmptyStore == [b \in ExistingBuckets |-> [k \in Keys |-> NoObj]]
Stored(st) == {<<b, k>> \in ExistingBuckets \X Keys : st[b][k] # NoObj}

----------------------------------------------------------------------------
(* Strings *)

StartsWith(s, p) ==
    /\ Len(p) <= Len(s)
    /\ \A i \in 1..Len(p) : s[i] = p[i]

\* Lexicographic (UTF-8 binary) order of keys, the provider's listing order.
CharLess(c, d) == c = "a" /\ d = "b"
KeyLess(s, t) ==
    \E i \in 1..(Len(s) + 1) :
        /\ i <= Len(t)
        /\ \A j \in 1..(i - 1) : s[j] = t[j]
        /\ (i = Len(s) + 1 \/ CharLess(s[i], t[i]))

RECURSIVE SortKeys(_)
SortKeys(S) ==
    IF S = {} THEN <<>>
    ELSE LET m == CHOOSE k \in S : \A o \in S \ {k} : KeyLess(k, o)
         IN <<m>> \o SortKeys(S \ {m})

----------------------------------------------------------------------------
(* The provider: what the boto3 calls of the adapter do to the store.       *)
(* fault is the error the provider answers whatever the store ("none" when *)
(* it serves the request).  Parameter validation is local to the SDK and   *)
(* comes before any request.                                               *)

Reply(err, st, body, ctype) == [err |-> err, store |-> st, body |-> body, ctype |-> ctype]

sdk_get_object(st, Bucket, Key, fault) ==
    IF Bucket = "" THEN Reply("ParamValidationError", st, NoBytes, "none")
    ELSE IF fault # "none" THEN Reply(fault, st, NoBytes, "none")
    ELSE IF Bucket \notin DOMAIN st THEN Reply("NoSuchBucket", st, NoBytes, "none")
    ELSE IF st[Bucket][Key] = NoObj THEN Reply("NoSuchKey", st, NoBytes, "none")
    ELSE Reply("none", st, st[Bucket][Key].body, st[Bucket][Key].ctype)

sdk_put_object(st, Body, Bucket, Key, kwargs, fault) ==
    IF Bucket = "" \/ Body.type # "bytes"
    THEN Reply("ParamValidationError", st, NoBytes, "none")
    ELSE IF fault # "none" THEN Reply(fault, st, NoBytes, "none")
    ELSE IF Bucket \notin DOMAIN st THEN Reply("NoSuchBucket", st, NoBytes, "none")
    ELSE Reply("none",
               [st EXCEPT ![Bucket][Key] =
                    [body |-> Body.data,
                     ctype |-> Get(kwargs, "ContentType", DefaultCType)]],
               NoBytes, "none")

\* Deleting a key that does not exist is no error for the provider.
sdk_delete_object(st, Bucket, Key, fault) ==
    IF Bucket = "" THEN Reply("ParamValidationError", st, NoBytes, "none")
    ELSE IF fault # "none" THEN Reply(fault, st, NoBytes, "none")
    ELSE IF Bucket \notin DOMAIN st THEN Reply("NoSuchBucket", st, NoBytes, "none")
    ELSE Reply("none", [st EXCEPT ![Bucket][Key] = NoObj], NoBytes, "none")

\* Bulk delete: the request succeeds as a whole; the keys the provider could
\* not delete (denied) are listed in the "Errors" member of the response.
sdk_delete_objects(st, Bucket, Objects_, denied, fault) ==
    IF Bucket = "" THEN [err |-> "ParamValidationError", store |-> st, Errors |-> {}]
    ELSE IF fault # "none" THEN [err |-> fault, store |-> st, Errors |-> {}]
    ELSE IF Bucket \notin DOMAIN st THEN [err |-> "NoSuchBucket", store |-> st, Errors |-> {}]
    ELSE [err |-> "none",
          store |-> [st EXCEPT ![Bucket] =
                        [k \in Keys |-> IF k \in Objects_ \ denied THEN NoObj ELSE @[k]]],
          Errors |-> Objects_ \cap denied]

\* strict: the provider refuses a copy of an object onto itself that changes
\* nothing (S3 does; its test double does not).
sdk_copy_object(st, Bucket, CopySource, Key, kwargs, fault, strict) ==
    IF Bucket = "" THEN Reply("ParamValidationError", st, NoBytes, "none")
    ELSE IF fault # "none" THEN Reply(fault, st, NoBytes, "none")
    ELSE IF Bucket \notin DOMAIN st \/ CopySource.Bucket \notin DOMAIN st
    THEN Reply("NoSuchBucket", st, NoBytes, "none")
    ELSE IF st[CopySource.Bucket][CopySource.Key] = NoObj
    THEN Reply("NoSuchKey", st, NoBytes, "none")
    ELSE IF /\ strict
            /\ <<Bucket, Key>> = <<CopySource.Bucket, CopySource.Key>>
            /\ Get(kwargs, "MetadataDirective", "COPY") # "REPLACE"
    THEN Reply("InvalidRequest", st, NoBytes, "none")
    ELSE LET src == st[CopySource.Bucket][CopySource.Key]
         IN Reply("none",
                  [st EXCEPT ![Bucket][Key] =
                       [body |-> src.body,
                        ctype |-> IF Get(kwargs, "MetadataDirective", "COPY") = "REPLACE"
                                  THEN Get(kwargs, "ContentType", DefaultCType)
                                  ELSE src.ctype]],
                  NoBytes, "none")

\* One provider call as recorded in calls.
Call(api, Bucket, Key, kwargs) ==
    [api |-> api, Bucket |-> Bucket, Key |-> Key, kwargs |-> kwargs]

----------------------------------------------------------------------------
(* The S3 adapter (aws/s3.py).  Every method is an operator giving the      *)
(* outcome of one invocation:                                               *)
(*   exc     the exception that reaches the caller ("none": normal return) *)
(*   origin  the provider call whose failure raised it                     *)
(*   data    the bytes returned, listing the list returned                 *)
(*   store   the provider state afterwards                                 *)
(*   calls   the provider calls issued, in order                           *)
(*   cfg     the caller's configuration dict afterwards                    *)
(*   mentions the field names spelled out in the message of the exception  *)

Outcome(exc, origin, data, listing, st, cs, cfg) ==
    [exc |-> exc, origin |-> origin, data |-> data, listing |-> listing,
     store |-> st, calls |-> cs, cfg |-> cfg, mentions |-> {}]

\* raise exceptions.ConfigurationError(ex): the message is that of validate().
ConfigurationError(v, st, cfg) ==
    [Outcome("ConfigurationError", "validate", NoBytes, <<>>, st, <<>>, cfg)
        EXCEPT !.mentions = v.mentions]

\* A configuration argument: given = FALSE is None.
NoConfig == [given |-> FALSE, d |-> EmptyDict]
Dict(d) == [given |-> TRUE, d |-> d]
\* Python truth value of a configuration argument (None and {} are falsy).
Truthy(configuration) == configuration.given /\ DOMAIN configuration.d # {}

\* read() that asks for the object once more when the request has failed.
read_again(st, bucket, path, fault) ==
    LET r == sdk_get_object(st, bucket, path, fault)
        c1 == Call("get_object", bucket, path, EmptyDict)
        exc == CASE r.err = "none" -> "none"
                 [] r.err = "ParamValidationError" -> "BucketNotFound"
                 [] r.err = "NoCredentialsError" -> "ConnectionError"
                 [] r.err = "NoSuchKey" -> "ObjectNotFound"
                 [] r.err \in {"NoSuchBucket", "InvalidBucketName"} -> "BucketNotFound"
                 [] OTHER -> "Exception"
    IN Outcome(exc, IF exc = "none" THEN "none" ELSE "get_object",
               r.body, <<>>, st, IF exc = "none" THEN <<c1>> ELSE <<c1, c1>>, EmptyDict)

\* read() that takes every missing key for a missing bucket.
read_key_as_bucket(st, bucket, path, fault) ==
    LET r == sdk_get_object(st, bucket, path, fault)
        cs == <<Call("get_object", bucket, path, EmptyDict)>>
        exc == CASE r.err = "none" -> "none"
                 [] r.err = "ParamValidationError" -> "BucketNotFound"
                 [] r.err = "NoCredentialsError" -> "ConnectionError"
                 [] r.err \in {"NoSuchKey", "NoSuchBucket", "InvalidBucketName"} -> "BucketNotFound"
                 [] OTHER -> "Exception"
    IN Outcome(exc, IF exc = "none" THEN "none" ELSE "get_object",
               r.body, <<>>, st, cs, EmptyDict)

read(st, bucket, path, fault) ==
    LET r == sdk_get_object(st, bucket, path, fault)
        cs == <<Call("get_object", bucket, path, EmptyDict)>>
        exc == CASE r.err = "none" -> "none"
                 [] r.err = "ParamValidationError" -> "BucketNotFound"
                 [] r.err = "NoCredentialsError" -> "ConnectionError"
                 [] r.err = "NoSuchKey" -> "ObjectNotFound"
                 [] r.err \in {"NoSuchBucket", "InvalidBucketName"} -> "BucketNotFound"
                 [] OTHER -> "Exception"
    IN Outcome(exc, IF exc = "none" THEN "none" ELSE "get_object",
               r.body, <<>>, st, cs, EmptyDict)

\* write() that acknowledges the object without storing it.
write_unstored(st, obj, bucket, path, configuration, fault) ==
    LET kwargs == IF Truthy(configuration) THEN configuration.d ELSE EmptyDict
        r == sdk_put_object(st, obj, bucket, path, kwargs, fault)
        cs == <<Call("put_object", bucket, path, kwargs)>>
        exc == CASE r.err = "none" -> "none"
                 [] r.err = "NoCredentialsError" -> "ConnectionError"
                 [] r.err = "NoSuchBucket" -> "BucketNotFound"
                 [] r.err = "ParamValidationError" -> "TypeError"
                 [] OTHER -> "Exception"
    IN Outcome(exc, IF exc = "none" THEN "none" ELSE "put_object",
               NoBytes, <<>>, st, cs, configuration.d)

write(st, obj, bucket, path, configuration, fault) ==
    LET kwargs == IF Truthy(configuration) THEN configuration.d ELSE EmptyDict
        r == sdk_put_object(st, obj, bucket, path, kwargs, fault)
        cs == <<Call("put_object", bucket, path, kwargs)>>
        exc == CASE r.err = "none" -> "none"
                 [] r.err = "NoCredentialsError" -> "ConnectionError"
                 [] r.err = "NoSuchBucket" -> "BucketNotFound"
                 [] r.err = "ParamValidationError" -> "TypeError"
                 [] OTHER -> "Exception"
    IN Outcome(exc, IF exc = "none" THEN "none" ELSE "put_object",
               NoBytes, <<>>, r.store, cs, configuration.d)

\* delete_object() that returns without the object being gone.
delete_object_kept(st, bucket, path, fault) ==
    LET r == sdk_delete_object(st, bucket, path, fault)
        cs == <<Call("delete_object", bucket, path, EmptyDict)>>
        exc == CASE r.err = "none" -> "none"
                 [] r.err = "NoSuchBucket" -> "BucketNotFound"
                 [] OTHER -> "Exception"
    IN Outcome(exc, IF exc = "none" THEN "none" ELSE "delete_object",
               NoBytes, <<>>, st, cs, EmptyDict)

delete_object(st, bucket, path, fault) ==
    LET r == sdk_delete_object(st, bucket, path, fault)
        cs == <<Call("delete_object", bucket, path, EmptyDict)>>
        exc == CASE r.err = "none" -> "none"
                 [] r.err = "NoSuchBucket" -> "BucketNotFound"
                 [] OTHER -> "Exception"
    IN Outcome(exc, IF exc = "none" THEN "none" ELSE "delete_object",
               NoBytes, <<>>, r.store, cs, EmptyDict)

\* The response of the provider (its "Errors" member) is not looked at.
delete_objects(st, bucket, paths, denied, fault) ==
    LET r == sdk_delete_objects(st, bucket, paths, denied, fault)
        cs == <<Call("delete_objects", bucket, <<>>, EmptyDict)>>
        exc == CASE r.err = "none" -> "none"
                 [] r.err = "NoSuchBucket" -> "BucketNotFound"
                 [] OTHER -> "Exception"
    IN Outcome(exc, IF exc = "none" THEN "none" ELSE "delete_objects",
               NoBytes, <<>>, r.store, cs, EmptyDict)

\* copy() that sends its copy request whatever the lookup of the source gave.
copy_unread(st, bucket_source, bucket_destination, path_source, path_destination, configuration, faults, strict) ==
    LET shared == Truthy(configuration)
        cfg0 == IF shared THEN configuration.d ELSE EmptyDict
        cfg1 == IF <<bucket_destination, path_destination>> = <<bucket_source, path_source>>
                THEN Put(cfg0, "MetadataDirective", "REPLACE")
                ELSE cfg0
        Mine(d) == IF shared THEN d ELSE configuration.d
        g == sdk_get_object(st, bucket_source, path_source, faults[1])
        c1 == Call("get_object", bucket_source, path_source, EmptyDict)
        cfg2 == Put(cfg1, "ContentType", g.ctype)
        Key == IF path_destination # Omitted THEN path_destination ELSE path_source
        c == sdk_copy_object(st, bucket_destination,
                             [Bucket |-> bucket_source, Key |-> path_source],
                             Key, cfg2, faults[2], strict)
        c2 == Call("copy_object", bucket_destination, Key, cfg2)
        cexc == CASE c.err = "none" -> "none"
                  [] c.err = "NoSuchBucket" -> "BucketNotFound"
                  [] c.err \in {"ParamValidationError", "NoCredentialsError"} -> c.err
                  [] OTHER -> "Exception"
    IN Outcome(cexc, IF cexc = "none" THEN "none" ELSE "copy_object",
               NoBytes, <<>>, c.store, <<c1, c2>>, Mine(cfg2))

\* copy() that does not hand the content type of the source to the copy request.
copy_forgets_type(st, bucket_source, bucket_destination, path_source, path_destination, configuration, faults, strict) ==
    LET \* a non-empty dict of the caller is used as it is (and written to)
        shared == Truthy(configuration)
        cfg0 == IF shared THEN configuration.d ELSE EmptyDict
        cfg1 == IF <<bucket_destination, path_destination>> = <<bucket_source, path_source>>
                THEN Put(cfg0, "MetadataDirective", "REPLACE")
                ELSE cfg0
        Mine(d) == IF shared THEN d ELSE configuration.d
        g == sdk_get_object(st, bucket_source, path_source, faults[1])
        c1 == Call("get_object", bucket_source, path_source, EmptyDict)
        gexc == CASE g.err = "none" -> "none"
                  [] g.err = "NoCredentialsError" -> "ConnectionError"
                  [] g.err = "NoSuchKey" -> "ObjectNotFound"
                  [] g.err = "NoSuchBucket" -> "BucketNotFound"
                  \* no ClientError: not caught
                  [] g.err = "ParamValidationError" -> "ParamValidationError"
                  [] OTHER -> "Exception"
        cfg2 == cfg1
        Key == IF path_destination # Omitted THEN path_destination ELSE path_source
        c == sdk_copy_object(st, bucket_destination,
                             [Bucket |-> bucket_source, Key |-> path_source],
                             Key, cfg2, faults[2], strict)
        c2 == Call("copy_object", bucket_destination, Key, cfg2)
        cexc == CASE c.err = "none" -> "none"
                  [] c.err = "NoSuchBucket" -> "BucketNotFound"
                  \* no ClientError: not caught
                  [] c.err \in {"ParamValidationError", "NoCredentialsError"} -> c.err
                  [] OTHER -> "Exception"
    IN IF gexc # "none"
       THEN Outcome(gexc, "get_object", NoBytes, <<>>, st, <<c1>>, Mine(cfg1))
       ELSE Outcome(cexc, IF cexc = "none" THEN "none" ELSE "copy_object",
                    NoBytes, <<>>, c.store, <<c1, c2>>, Mine(cfg2))

\* faults[i] is the answer of the provider to the i-th call of the method.
copy(st, bucket_source, bucket_destination, path_source, path_destination, configuration, faults, strict) ==
    LET \* a non-empty dict of the caller is used as it is (and written to)
        shared == Truthy(configuration)
        cfg0 == IF shared THEN configuration.d ELSE EmptyDict
        cfg1 == IF <<bucket_destination, path_destination>> = <<bucket_source, path_source>>
                THEN Put(cfg0, "MetadataDirective", "REPLACE")
                ELSE cfg0
        Mine(d) == IF shared THEN d ELSE configuration.d
        g == sdk_get_object(st, bucket_source, path_source, faults[1])
        c1 == Call("get_object", bucket_source, path_source, EmptyDict)
        gexc == CASE g.err = "none" -> "none"
                  [] g.err = "NoCredentialsError" -> "ConnectionError"
                  [] g.err = "NoSuchKey" -> "ObjectNotFound"
                  [] g.err = "NoSuchBucket" -> "BucketNotFound"
                  \* no ClientError: not caught
                  [] g.err = "ParamValidationError" -> "ParamValidationError"
                  [] OTHER -> "Exception"
        cfg2 == Put(cfg1, "ContentType", g.ctype)
        Key == IF path_destination # Omitted THEN path_destination ELSE path_source
        c == sdk_copy_object(st, bucket_destination,
                             [Bucket |-> bucket_source, Key |-> path_source],
                             Key, cfg2, faults[2], strict)
        c2 == Call("copy_object", bucket_destination, Key, cfg2)
        cexc == CASE c.err = "none" -> "none"
                  [] c.err = "NoSuchBucket" -> "BucketNotFound"
                  \* no ClientError: not caught
                  [] c.err \in {"ParamValidationError", "NoCredentialsError"} -> c.err
                  [] OTHER -> "Exception"
    IN IF gexc # "none"
       THEN Outcome(gexc, "get_object", NoBytes, <<>>, st, <<c1>>, Mine(cfg1))
       ELSE Outcome(cexc, IF cexc = "none" THEN "none" ELSE "copy_object",
                    NoBytes, <<>>, c.store, <<c1, c2>>, Mine(cfg2))

\* move() that leaves the source where it is.
move_keeps_source(st, bucket_source, bucket_destination, path_source, path_destination, configuration, faults, strict) ==
    LET c == copy(st, bucket_source, bucket_destination, path_source, path_destination,
                  IF Truthy(configuration) THEN configuration ELSE Dict(EmptyDict),
                  faults, strict)
        cfg == IF Truthy(configuration) THEN c.cfg ELSE configuration.d
        d == delete_object(c.store, bucket_source, path_source, faults[3])
    IN IF c.exc # "none"
       THEN Outcome(c.exc, c.origin, NoBytes, <<>>, c.store, c.calls, cfg)
       ELSE Outcome(d.exc, d.origin, NoBytes, <<>>, c.store, c.calls \o d.calls, cfg)

\* move() that deletes the source whatever became of the copy.
move_deletes_anyway(st, bucket_source, bucket_destination, path_source, path_destination, configuration, faults, strict) ==
    LET c == copy(st, bucket_source, bucket_destination, path_source, path_destination,
                  IF Truthy(configuration) THEN configuration ELSE Dict(EmptyDict),
                  faults, strict)
        cfg == IF Truthy(configuration) THEN c.cfg ELSE configuration.d
        d == delete_object(c.store, bucket_source, path_source, faults[3])
    IN IF c.exc # "none"
       THEN Outcome(c.exc, c.origin, NoBytes, <<>>, d.store, c.calls \o d.calls, cfg)
       ELSE Outcome(d.exc, d.origin, NoBytes, <<>>, d.store, c.calls \o d.calls, cfg)

move(st, bucket_source, bucket_destination, path_source, path_destination, configuration, faults, strict) ==
    LET c == copy(st, bucket_source, bucket_destination, path_source, path_destination,
                  IF Truthy(configuration) THEN configuration ELSE Dict(EmptyDict),
                  faults, strict)
        cfg == IF Truthy(configuration) THEN c.cfg ELSE configuration.d
        d == delete_object(c.store, bucket_source, path_source, faults[3])
    IN IF c.exc # "none"
       THEN Outcome(c.exc, c.origin, NoBytes, <<>>, c.store, c.calls, cfg)
       ELSE Outcome(d.exc, d.origin, NoBytes, <<>>, d.store, c.calls \o d.calls, cfg)

\* The buckets of the account in the order the provider lists them.
Buckets == <<"b1", "b2">>

\* A ClientError whose code is not InvalidAccessKeyId is caught and dropped:
\* the method ends without a return statement (None, here the empty listing).
list_buckets(st, fault) ==
    LET cs == <<Call("list_buckets", "", <<>>, EmptyDict)>>
    IN CASE fault = "none" -> Outcome("none", "none", NoBytes, Buckets, st, cs, EmptyDict)
         [] fault = "InvalidAccessKeyId" ->
                Outcome("ConnectionError", "list_buckets", NoBytes, <<>>, st, cs, EmptyDict)
         \* no ClientError: not caught
         [] fault = "NoCredentialsError" ->
                Outcome("NoCredentialsError", "list_buckets", NoBytes, <<>>, st, cs, EmptyDict)
         [] OTHER -> Outcome("none", "none", NoBytes, <<>>, st, cs, EmptyDict)

\* Size of the pages the provider lists a bucket in.
PageSize == 1

\* Entries of the listing matching the prefix, in the provider's order.
Contents(st, Bucket, Prefix) ==
    LET ks == SortKeys({k \in Keys : st[Bucket][k] # NoObj /\ StartsWith(k, Prefix)})
    IN [i \in 1..Len(ks) |-> [Key |-> ks[i], Size |-> Len(st[Bucket][ks[i]].body)]]

\* The pages a paginator yields before it raises: all of them when the
\* provider serves every page request, those before page failAt otherwise.
PagesServed(all, failAt) ==
    IF failAt = 0 THEN all
    ELSE SubSeq(all, 1, (failAt - 1) * PageSize)

NumPages(n) == IF n = 0 THEN 1 ELSE (n + PageSize - 1) \div PageSize

\* fault is answered to page request failAt (if there is such a page).
_list_objects(st, bucket, prefix, max_objects, fault, failAt) ==
    LET max_objects_ == IF max_objects # 0 THEN max_objects ELSE 1000
        cs == <<Call("list_objects_v2", bucket, prefix, EmptyDict)>>
        exists == bucket \in DOMAIN st
        all == IF exists THEN Contents(st, bucket, prefix) ELSE <<>>
        failing == fault # "none" /\ failAt \in 1..NumPages(Len(all))
        err == IF bucket = "" THEN "ParamValidationError"
               ELSE IF fault # "none" /\ failAt = 1 THEN fault
               ELSE IF ~exists THEN "NoSuchBucket"
               ELSE IF failing THEN fault
               ELSE "none"
        output == IF err = "none" THEN all
                  ELSE IF exists THEN PagesServed(all, failAt) ELSE <<>>
        exc == CASE err = "none" -> "none"
                 [] err = "ParamValidationError" -> "BucketNotFound"
                 [] err = "NoSuchBucket" -> "BucketNotFound"
                 \* no ClientError: not caught
                 [] err = "NoCredentialsError" -> "NoCredentialsError"
                 \* any other ClientError is dropped and the pages read so far returned
                 [] OTHER -> "none"
    IN Outcome(exc, IF exc = "none" THEN "none" ELSE "list_objects_v2",
               NoBytes, IF exc = "none" THEN output ELSE <<>>, st, cs, EmptyDict)

list_objects(st, bucket, prefix, max_objects, fault, failAt) ==
    LET r == _list_objects(st, bucket, prefix, max_objects, fault, failAt)
    IN [r EXCEPT !.listing = [i \in 1..Len(r.listing) |-> r.listing[i].Key]]

list_objects_size(st, bucket, prefix, max_objects, fault, failAt) ==
    LET r == _list_objects(st, bucket, prefix, max_objects, fault, failAt)
    IN [r EXCEPT !.listing = [i \in 1..Len(r.listing) |-> <<r.listing[i].Key, r.listing[i].Size>>]]

\* gcp/gcs.py Client.list_objects.  lookup_bucket returns None for a
\* bucket that is not there and raises what else the provider answers
\* (Forbidden); the BucketNotFound raised for None is raised inside the try
\* whose handler takes every Exception and raises PermissionError.
\* max_objects = 0 stands for None: no limit.
gcs_list_objects(st, bucket, prefix, max_objects, fault) ==
    LET c1 == Call("lookup_bucket", bucket, <<>>, EmptyDict)
        c2 == Call("list_blobs", bucket, prefix, EmptyDict)
        all == Contents(st, bucket, prefix)
        n == IF max_objects # 0 /\ max_objects < Len(all) THEN max_objects ELSE Len(all)
    IN IF fault # "none"
       THEN Outcome("PermissionError", "lookup_bucket", NoBytes, <<>>, st, <<c1>>, EmptyDict)
       ELSE IF bucket \notin DOMAIN st
       THEN Outcome("PermissionError", "BucketNotFound", NoBytes, <<>>, st, <<c1>>, EmptyDict)
       ELSE Outcome("none", "none", NoBytes,
                    [i \in 1..n |-> <<all[i].Key, all[i].Size>>], st, <<c1, c2>>, EmptyDict)

----------------------------------------------------------------------------
(* Configuration validation (fastjsonschema.validate against the schemas   *)
(* of the clients).  A JSON value is described by what a schema looks at:  *)
(* its type, for a string its length and whether it matches the pattern    *)
(* and the enumeration of the property it is given for, for an object its  *)
(* members.                                                                *)

Val(type, len, pat, enum, props) ==
    [type |-> type, len |-> len, pat |-> pat, enum |-> enum, props |-> props]
Str(len, pat, enum) == Val("string", len, pat, enum, EmptyDict)
AnyStr == Str(9, TRUE, TRUE)
VInt == Val("integer", 0, TRUE, TRUE, EmptyDict)
VNum == Val("number", 0, TRUE, TRUE, EmptyDict)
VBool == Val("boolean", 0, TRUE, TRUE, EmptyDict)
Null == Val("null", 0, TRUE, TRUE, EmptyDict)
Obj(props) == Val("object", 0, TRUE, TRUE, props)

\* A schema: types = {} puts no constraint on the type, oneOf = {} none on
\* alternatives, maxLength = -1 none on the length; order lists the
\* properties in the order the schema declares them.
Sch(types, oneOf, enum, minLength, maxLength, pattern, hasDefault, default) ==
    [types |-> types, oneOf |-> oneOf, enum |-> enum, minLength |-> minLength,
     maxLength |-> maxLength, pattern |-> pattern, hasDefault |-> hasDefault,
     default |-> default, required |-> {}, order |-> <<>>, properties |-> EmptyDict,
     additional |-> TRUE]
T(type) == Sch({type}, {}, FALSE, 0, -1, FALSE, FALSE, Null)
TD(type, default) == Sch({type}, {}, FALSE, 0, -1, FALSE, TRUE, default)
ObjSch(required, order, properties, hasDefault, default) ==
    [Sch({"object"}, {}, FALSE, 0, -1, FALSE, hasDefault, default)
        EXCEPT !.required = required, !.order = order, !.properties = properties,
               !.additional = FALSE]

\* JSON Schema: an integer is a number.
TypeMatches(type, types) ==
    type \in types \/ (type = "integer" /\ "number" \in types)

Pass == [ok |-> TRUE, rule |-> "none", name |-> "none", mentions |-> {}]
Fail(rule, name, mentions) ==
    [ok |-> FALSE, rule |-> rule, name |-> name, mentions |-> mentions]

\* The first violation in the order fastjsonschema checks the keywords:
\* type, enum, oneOf, minLength, maxLength, pattern, required, properties,
\* additionalProperties.  mentions: the field names the message spells out.
RECURSIVE Check(_, _, _)
Check(schema, value, name) ==
    IF schema.types # {} /\ ~TypeMatches(value.type, schema.types)
    THEN Fail("type", name, {name})
    ELSE IF schema.enum /\ ~value.enum THEN Fail("enum", name, {name})
    ELSE IF schema.oneOf # {}
            /\ Cardinality({ts \in schema.oneOf : TypeMatches(value.type, ts)}) # 1
    THEN Fail("oneOf", name, {name})
    ELSE IF value.type = "string" /\ value.len < schema.minLength
    THEN Fail("minLength", name, {name})
    ELSE IF value.type = "string" /\ schema.maxLength >= 0 /\ value.len > schema.maxLength
    THEN Fail("maxLength", name, {name})
    ELSE IF value.type = "string" /\ schema.pattern /\ ~value.pat
    THEN Fail("pattern", name, {name})
    ELSE IF value.type # "object" THEN Pass
    ELSE IF ~(schema.required \subseteq DOMAIN value.props)
    THEN Fail("required", name, schema.required)
    ELSE LET bad == {i \in 1..Len(schema.order) :
                        /\ schema.order[i] \in DOMAIN value.props
                        /\ ~Check(schema.properties[schema.order[i]],
                                  value.props[schema.order[i]], schema.order[i]).ok}
         IN IF bad # {}
            THEN LET i == CHOOSE j \in bad : \A o \in bad : j <= o
                 IN Check(schema.properties[schema.order[i]],
                          value.props[schema.order[i]], schema.order[i])
            ELSE IF ~schema.additional
                    /\ ~(DOMAIN value.props \subseteq DOMAIN schema.properties)
            THEN Fail("additionalProperties", name, {})
            ELSE Pass

\* validate() writes the defaults of the absent properties into the mapping
\* and into the objects nested in it.
RECURSIVE WithDefaults(_, _)
WithDefaults(schema, d) ==
    [k \in (DOMAIN d) \cup {p \in DOMAIN schema.properties : schema.properties[p].hasDefault}
        |-> IF k \notin DOMAIN d THEN schema.properties[k].default
            ELSE IF k \in DOMAIN schema.properties /\ d[k].type = "object"
            THEN Obj(WithDefaults(schema.properties[k], d[k].props))
            ELSE d[k]]

\* fastjsonschema.validate(schema, data) on a mapping: the verdict and the
\* mapping as validate leaves it.
validate(schema, d) ==
    LET v == Check(schema, Obj(d), "data")
    IN [ok |-> v.ok, rule |-> v.rule, name |-> v.name, mentions |-> v.mentions,
        data |-> IF v.ok THEN WithDefaults(schema, d) ELSE d]

\* Client.CLIENT_CONFIG_SCHEMA of the S3 client.
S3_ADDRESSING_SCHEMA ==
    ObjSch({}, <<"use_accelerate_endpoint", "payload_signing_enabled", "addressing_style">>,
           [use_accelerate_endpoint |-> T("boolean"),
            payload_signing_enabled |-> T("boolean"),
            addressing_style |-> [TD("string", AnyStr) EXCEPT !.enum = TRUE]],
           TRUE,
           Obj([use_accelerate_endpoint |-> VBool, payload_signing_enabled |-> VBool,
                addressing_style |-> AnyStr]))

RETRIES_SCHEMA ==
    ObjSch({}, <<"total_max_attempts", "max_attempts", "mode">>,
           [total_max_attempts |-> T("integer"),
            max_attempts |-> T("integer"),
            mode |-> [T("string") EXCEPT !.enum = TRUE]],
           FALSE, Null)

NumberOrInteger == Sch({}, {{"number"}, {"integer"}}, FALSE, 0, -1, FALSE, TRUE, VInt)

ADVANCED_CONFIG_SCHEMA ==
    ObjSch({},
           <<"region_name", "signature_version", "user_agent", "user_agent_extra",
             "connect_timeout", "read_timeout", "parameter_validation",
             "max_pool_connections", "proxies", "s3", "retries", "client_cert",
             "inject_host_prefix">>,
           [region_name |-> T("string"),
            signature_version |-> T("string"),
            user_agent |-> TD("string", Null),
            user_agent_extra |-> TD("string", Null),
            connect_timeout |-> NumberOrInteger,
            read_timeout |-> NumberOrInteger,
            parameter_validation |-> TD("boolean", VBool),
            max_pool_connections |-> TD("integer", VInt),
            proxies |-> TD("object", Null),
            s3 |-> S3_ADDRESSING_SCHEMA,
            retries |-> RETRIES_SCHEMA,
            client_cert |-> T("string"),
            inject_host_prefix |-> T("boolean")],
           TRUE, Null)

CLIENT_CONFIG_SCHEMA ==
    ObjSch({},
           <<"region_name", "api_version", "use_ssl", "verify", "endpoint_url",
             "aws_access_key_id", "aws_secret_access_key", "aws_session_token", "config">>,
           [region_name |-> [TD("string", AnyStr) EXCEPT !.enum = TRUE],
            api_version |-> T("string"),
            use_ssl |-> TD("boolean", VBool),
            verify |-> Sch({}, {{"boolean"}, {"string"}}, FALSE, 0, -1, FALSE, FALSE, Null),
            endpoint_url |-> T("string"),
            aws_access_key_id |-> Sch({"string"}, {}, FALSE, 20, 20, TRUE, FALSE, Null),
            aws_secret_access_key |-> Sch({"string"}, {}, FALSE, 40, 40, TRUE, FALSE, Null),
            aws_session_token |-> T("string"),
            config |-> ADVANCED_CONFIG_SCHEMA],
           TRUE, Null)

\* Client.S3_TRANSFER_SCHEMA of the S3 client.
S3_TRANSFER_SCHEMA ==
    ObjSch({},
           <<"multipart_threshold", "max_concurrency", "multipart_chunksize",
             "num_download_attempts", "max_io_queue", "io_chunksize", "use_threads">>,
           [multipart_threshold |-> TD("integer", VInt),
            max_concurrency |-> TD("integer", VInt),
            multipart_chunksize |-> TD("integer", VInt),
            num_download_attempts |-> TD("integer", VInt),
            max_io_queue |-> TD("integer", VInt),
            io_chunksize |-> TD("integer", VInt),
            use_threads |-> TD("boolean", VBool)],
           TRUE, Null)

\* Client.SCHEMA of the database client.
SCHEMA ==
    ObjSch({"dbname", "user", "password"},
           <<"dbname", "user", "password", "host", "port">>,
           [dbname |-> TD("string", AnyStr),
            user |-> TD("string", AnyStr),
            password |-> TD("string", AnyStr),
            host |-> TD("string", AnyStr),
            port |-> TD("integer", VInt)],
           FALSE, Null)

\* Client.CONF_DEFAULT: the defaults of all the properties.
CONF_DEFAULT == [k \in DOMAIN SCHEMA.properties |-> SCHEMA.properties[k].default]

----------------------------------------------------------------------------
(* aws/sts.py: assume_role.                                                *)

CONFIG_SCHEMA ==
    ObjSch({"role_arn"},
           <<"region_name", "aws_access_key_id", "aws_secret_access_key", "role_arn">>,
           [region_name |-> [TD("string", AnyStr) EXCEPT !.enum = TRUE],
            aws_access_key_id |-> Sch({"string"}, {}, FALSE, 20, 20, TRUE, FALSE, Null),
            aws_secret_access_key |-> Sch({"string"}, {}, FALSE, 40, 40, TRUE, FALSE, Null),
            role_arn |-> Sch({"string"}, {}, FALSE, 0, -1, TRUE, FALSE, Null)],
           TRUE, Null)

\* What STS does with the request: it issues the credentials, or answers
\* with a ClientError whose code is InvalidClientTokenId (the credentials
\* are not valid) or AccessDenied (the caller may not assume the role); or
\* the SDK finds no credentials to sign with, or does not reach the endpoint.
StsAnswers ==
    {"ok", "InvalidClientTokenId", "AccessDenied", "NoCredentialsError",
     "EndpointConnectionError"}

\* The keys of the mapping assume_role returns.
TempCredentials == <<"aws_access_key_id", "aws_secret_access_key", "aws_session_token">>

\* configuration.pop("role_arn")
pop(d, key) == [k \in DOMAIN d \ {key} |-> d[k]]

\* assume_role.  The outcome lists the keys of the mapping returned, and
\* its cfg is the caller's mapping as the call leaves it.  A ClientError
\* with another code than InvalidClientTokenId leaves the handler without
\* a raise, and resp, read next, was never bound; an exception of the SDK
\* that is not named in a handler is not caught.  (A response that is not
\* an error has status 200: the SDK raises ClientError for every other.)
assume_role(configuration, answer) ==
    LET v == validate(CONFIG_SCHEMA, configuration.d)
        kwargs == pop(v.data, "role_arn")
        cs == <<Call("boto3.client", "", <<>>, kwargs),
                Call("assume_role", "", <<>>, EmptyDict)>>
        End(exc, origin, keys) == Outcome(exc, origin, NoBytes, keys, EmptyStore, cs, kwargs)
    IN IF ~v.ok THEN ConfigurationError(v, EmptyStore, configuration.d)
       ELSE IF answer = "ok" THEN End("none", "none", TempCredentials)
       ELSE IF answer \in {"InvalidClientTokenId", "NoCredentialsError"}
       THEN End("ConnectionError", "assume_role", <<>>)
       ELSE IF answer = "AccessDenied" THEN End("UnboundLocalError", "resp", <<>>)
       ELSE End(answer, "assume_role", <<>>)

----------------------------------------------------------------------------
(* decorators.py: connection_retry.                                        *)

MaxAttempts == 3

\* What one invocation of the wrapped function does: it returns a value
\* (None is one), raises an exception derived from Exception, or raises
\* one that is not (SystemExit of sys.exit(), KeyboardInterrupt).
Returns == {"value", "None"}
FuncOutcomes == Returns \cup {"Exception", "SystemExit"}

\* plan[k]: what the k-th invocation of the wrapped function does.
Plans == [1..MaxAttempts -> FuncOutcomes]
func(plan, k) == IF k \in DOMAIN plan THEN plan[k] ELSE "Exception"

NoRetry ==
    [called |-> FALSE, max_attempts |-> 0, plan |-> <<>>, exc |-> "none",
     result |-> "None", invoked |-> 0, slept |-> 0]

\* range(max_attempts) with one attempt more.
range_inclusive(n) == 0..n

\* range(max_attempts)
range(n) == 0..(n - 1)

\* delay_base + delay_increment * conn_attempt with the defaults 5. and
\* 0.5, in tenths of a second.
delay(conn_attempt) == 50 + 5 * conn_attempt

\* The loop of wrapper from conn_attempt on, after invoked invocations and
\* slept tenths of a second asleep.  Falling off the loop returns None.
RECURSIVE wrapper(_, _, _, _, _)
wrapper(max_attempts, plan, conn_attempt, invoked, slept) ==
    LET r == func(plan, invoked + 1)
        End(exc, result, k) ==
            [called |-> TRUE, max_attempts |-> max_attempts, plan |-> plan,
             exc |-> exc, result |-> result, invoked |-> k, slept |-> slept]
    IN IF conn_attempt \notin range(max_attempts) THEN End("none", "None", invoked)
       ELSE IF r \in Returns THEN End("none", r, invoked + 1)
       ELSE IF r = "Exception"
       THEN wrapper(max_attempts, plan, conn_attempt + 1, invoked + 1,
                    slept + delay(conn_attempt))
       ELSE End(r, "None", invoked + 1)

----------------------------------------------------------------------------
(* Construction of the clients and the transfers of the S3 adapter.        *)

NoClient == [constructed |-> FALSE, configuration |-> EmptyDict]
\* autocommit: the argument of the constructor (self.autocommit of the
\* Redshift client); session: the autocommit mode the session was given.
NoDbClient ==
    [kind |-> "none", state |-> "disconnected", config |-> EmptyDict,
     autocommit |-> FALSE, session |-> FALSE]

\* The table of the database: its rows as committed, as the session of the
\* client sees them (working), and the transaction status of the session
\* (lost: the server has ended the session, the client has not closed it).
Rows == {1, 2}
EmptyDb == [committed |-> {}, working |-> {}, status |-> "idle"]

\* The local file system: the files of a writable directory, a directory
\* the process may not write to, and a path whose directory does not exist.
WritablePaths == {<<"b">>}
ReadOnlyPaths == {<<"r">>}
NoDirPaths == {<<"n">>}
NoFile == [exists |-> FALSE, data |-> NoBytes]
NoFiles == [p \in WritablePaths |-> NoFile]

\* Faulty variant of Client.__init__: the session is opened with the mapping
\* as supplied, without validating it.
S3Client__init__unvalidated(configuration, accepted) ==
    LET kwargs == configuration.d
        cs == <<Call("boto3.client", "", <<>>, kwargs)>>
    IN IF ~accepted
       THEN [out |-> Outcome("ValueError", "boto3.client", NoBytes, <<>>, EmptyStore, cs, kwargs),
             client |-> NoClient]
       ELSE [out |-> Outcome("none", "none", NoBytes, <<>>, EmptyStore, cs, kwargs),
             client |-> [constructed |-> TRUE, configuration |-> kwargs]]

\* aws/s3.py Client.__init__.  accepted: boto3.client() takes the arguments.
\* client is the object the constructor leaves (none when it raises).
S3Client__init__(configuration, accepted) ==
    LET v == validate(CLIENT_CONFIG_SCHEMA, configuration.d)
        kwargs == IF Truthy(configuration) THEN v.data ELSE EmptyDict
        cs == <<Call("boto3.client", "", <<>>, kwargs)>>
    IN IF Truthy(configuration) /\ ~v.ok
       THEN [out |-> ConfigurationError(v, EmptyStore, configuration.d), client |-> NoClient]
       ELSE IF ~accepted
       THEN [out |-> Outcome("ValueError", "boto3.client", NoBytes, <<>>, EmptyStore, cs, kwargs),
             client |-> NoClient]
       ELSE [out |-> Outcome("none", "none", NoBytes, <<>>, EmptyStore, cs, kwargs),
             client |-> [constructed |-> TRUE, configuration |-> kwargs]]

\* Faulty variant of the database Client.__init__: every failure is raised
\* as DatabaseConnectionError.
DbClient__init__one_error(config, autocommit, connects) ==
    LET v == validate(SCHEMA, config)
        c1 == Call("psycopg2.connect", "", <<>>, v.data)
        c2 == Call("set_session", "", <<>>, EmptyDict)
    IN IF ~v.ok
       THEN [out |-> Outcome("DatabaseConnectionError", "validate", NoBytes, <<>>,
                             EmptyStore, <<>>, config),
             client |-> NoDbClient]
       ELSE IF ~connects
       THEN [out |-> Outcome("DatabaseConnectionError", "psycopg2.connect", NoBytes, <<>>,
                             EmptyStore, <<c1>>, v.data),
             client |-> NoDbClient]
       ELSE [out |-> Outcome("none", "none", NoBytes, <<>>, EmptyStore, <<c1, c2>>, v.data),
             client |-> [kind |-> "redshift", state |-> "connected", config |-> v.data,
                         autocommit |-> autocommit, session |-> autocommit]]

\* Client.__init__ that hands out a client although the connection was
\* refused.
DbClient__init__unconnected(config, autocommit, connects) ==
    LET v == validate(SCHEMA, config)
        c1 == Call("psycopg2.connect", "", <<>>, v.data)
        c2 == Call("set_session", "", <<>>, EmptyDict)
    IN IF ~v.ok
       THEN [out |-> ConfigurationError(v, EmptyStore, config), client |-> NoDbClient]
       ELSE [out |-> Outcome("none", "none", NoBytes, <<>>, EmptyStore, <<c1, c2>>, v.data),
             client |-> [kind |-> "redshift", state |-> "connected", config |-> v.data,
                         autocommit |-> autocommit, session |-> autocommit]]

\* aws/redshift.py Client.__init__.  connects: the server accepts the connection.
DbClient__init__(config, autocommit, connects) ==
    LET v == validate(SCHEMA, config)
        c1 == Call("psycopg2.connect", "", <<>>, v.data)
        c2 == Call("set_session", "", <<>>, EmptyDict)
    IN IF ~v.ok
       THEN [out |-> ConfigurationError(v, EmptyStore, config), client |-> NoDbClient]
       ELSE IF ~connects
       THEN [out |-> Outcome("DatabaseConnectionError", "psycopg2.connect", NoBytes, <<>>,
                             EmptyStore, <<c1>>, v.data),
             client |-> NoDbClient]
       ELSE [out |-> Outcome("none", "none", NoBytes, <<>>, EmptyStore, <<c1, c2>>, v.data),
             client |-> [kind |-> "redshift", state |-> "connected", config |-> v.data,
                         autocommit |-> autocommit, session |-> autocommit]]

\* database/postgres.py Client.__init__: the module never binds the name
\* exceptions (it imports cloud_connectors.database.exceptions), so each of
\* its raise statements ends in NameError; the session is set to autocommit
\* whatever the argument.  (The module is modelled as it reads once the
\* parenthesis left open at line 201 is closed; as shipped it does not
\* compile.)
PgClient__init__(config, autocommit, connects) ==
    LET v == validate(SCHEMA, config)
        c1 == Call("psycopg2.connect", "", <<>>, v.data)
        c2 == Call("set_session", "", <<>>, EmptyDict)
    IN IF ~v.ok
       THEN [out |-> Outcome("NameError", "validate", NoBytes, <<>>, EmptyStore, <<>>, config),
             client |-> NoDbClient]
       ELSE IF ~connects
       THEN [out |-> Outcome("NameError", "psycopg2.connect", NoBytes, <<>>,
                             EmptyStore, <<c1>>, v.data),
             client |-> NoDbClient]
       ELSE [out |-> Outcome("none", "none", NoBytes, <<>>, EmptyStore, <<c1, c2>>, v.data),
             client |-> [kind |-> "postgres", state |-> "connected", config |-> v.data,
                         autocommit |-> autocommit, session |-> TRUE]]

\* The statements sent: insert and delete of a row, select of the table.
\* The table has a primary key: the insert of a row that is there fails.
Queries ==
    {[kind |-> k, row |-> r] : k \in {"insert", "delete"}, r \in Rows}
        \cup {[kind |-> "select", row |-> 0]}

\* cursor() and execute() of a connection that serves a closed client too.
conn_execute_unclosed(c, d, query) ==
    LET Answer(err, rows, dd) == [err |-> err, rows |-> rows, db |-> dd]
        w == CASE query.kind = "insert" -> d.working \cup {query.row}
               [] query.kind = "delete" -> d.working \ {query.row}
               [] OTHER -> d.working
    IN IF d.status = "lost" THEN Answer("OperationalError", {}, d)
       ELSE IF d.status = "aborted" THEN Answer("InFailedSqlTransaction", {}, d)
       ELSE IF query.kind = "insert" /\ query.row \in d.working
       THEN Answer("UniqueViolation", {},
                   [d EXCEPT !.status = IF c.session THEN "idle" ELSE "aborted"])
       ELSE IF c.session
       THEN Answer("none", d.working, [committed |-> w, working |-> w, status |-> "idle"])
       ELSE Answer("none", d.working, [d EXCEPT !.working = w, !.status = "intrans"])

\* cursor() and execute() of the connection of client c.  In a session
\* without autocommit a statement opens a transaction, and a statement that
\* fails leaves the transaction aborted until it is rolled back.
conn_execute(c, d, query) ==
    LET Answer(err, rows, dd) == [err |-> err, rows |-> rows, db |-> dd]
        w == CASE query.kind = "insert" -> d.working \cup {query.row}
               [] query.kind = "delete" -> d.working \ {query.row}
               [] OTHER -> d.working
    IN IF c.state # "connected" THEN Answer("InterfaceError", {}, d)
       ELSE IF d.status = "lost" THEN Answer("OperationalError", {}, d)
       ELSE IF d.status = "aborted" THEN Answer("InFailedSqlTransaction", {}, d)
       ELSE IF query.kind = "insert" /\ query.row \in d.working
       THEN Answer("UniqueViolation", {},
                   [d EXCEPT !.status = IF c.session THEN "idle" ELSE "aborted"])
       ELSE IF c.session
       THEN Answer("none", d.working, [committed |-> w, working |-> w, status |-> "idle"])
       ELSE Answer("none", d.working, [d EXCEPT !.working = w, !.status = "intrans"])

\* commit() of the connection: the work of an aborted transaction is dropped.
conn_commit(c, d) ==
    IF c.state # "connected" THEN [err |-> "InterfaceError", db |-> d]
    ELSE IF d.status = "lost" THEN [err |-> "OperationalError", db |-> d]
    ELSE IF d.status = "aborted"
    THEN [err |-> "none", db |-> [d EXCEPT !.working = d.committed, !.status = "idle"]]
    ELSE [err |-> "none", db |-> [d EXCEPT !.committed = d.working, !.status = "idle"]]

conn_rollback(c, d) ==
    IF c.state # "connected" THEN [err |-> "InterfaceError", db |-> d]
    ELSE IF d.status = "lost" THEN [err |-> "OperationalError", db |-> d]
    ELSE [err |-> "none", db |-> [d EXCEPT !.working = d.committed, !.status = "idle"]]

\* close() of the connection: work not committed is lost; closing twice is
\* no error.
conn_close(c, d) ==
    IF c.state # "connected" THEN [err |-> "none", db |-> d]
    ELSE [err |-> "none", db |-> [d EXCEPT !.working = d.committed, !.status = "idle"]]

\* fetchall(): the rows in the order of their key.
RowList(rows) ==
    [i \in 1..Cardinality(rows) |->
        CHOOSE r \in rows : Cardinality({x \in rows : x < r}) = i - 1]

\* The outcome of a database operation: as Outcome, with the rows fetched
\* as its listing and the database afterwards.
DbOutcome(exc, origin, rows, d, cs) ==
    Outcome(exc, origin, NoBytes, RowList(rows), EmptyStore, cs, EmptyDict) @@ [db |-> d]

\* raise exceptions.<kind>(...) in the module of client c.
Raised(c, kind) == IF c.kind = "postgres" THEN "NameError" ELSE kind

\* query_fetch (the same in both modules).  A statement that returns no rows
\* leaves cur.description None, over which _col_names cannot iterate.
query_fetch(c, d, query) ==
    LET e == conn_execute(c, d, query)
        cs == <<Call("execute", "", <<>>, EmptyDict)>>
    IN IF e.err # "none"
       THEN DbOutcome(Raised(c, "DatabaseError"), "execute", {}, e.db, cs)
       ELSE IF query.kind # "select"
       THEN DbOutcome("TypeError", "cur.description", {}, e.db, cs)
       ELSE DbOutcome("none", "none", e.rows, e.db, cs)

\* query_cud() that commits whatever the client was constructed with.
query_cud_commits(c, d, query) ==
    LET e == conn_execute(c, d, query)
        k == conn_commit(c, e.db)
        c1 == Call("execute", "", <<>>, EmptyDict)
        c2 == Call("commit", "", <<>>, EmptyDict)
    IN IF e.err # "none"
       THEN DbOutcome("DatabaseError", "execute", {}, e.db, <<c1>>)
       ELSE DbOutcome("none", "none", {}, k.db, <<c1, c2>>)

\* aws/redshift.py Client.query_cud
query_cud(c, d, query) ==
    LET e == conn_execute(c, d, query)
        k == conn_commit(c, e.db)
        c1 == Call("execute", "", <<>>, EmptyDict)
        c2 == Call("commit", "", <<>>, EmptyDict)
    IN IF e.err # "none"
       THEN DbOutcome("DatabaseError", "execute", {}, e.db, <<c1>>)
       ELSE IF c.autocommit
       THEN DbOutcome("none", "none", {}, k.db, <<c1, c2>>)
       ELSE DbOutcome("none", "none", {}, e.db, <<c1>>)

\* database/postgres.py Client.query_cud
pg_query_cud(c, d, query, commit) ==
    LET e == conn_execute(c, d, query)
        k == conn_commit(c, e.db)
        c1 == Call("execute", "", <<>>, EmptyDict)
        c2 == Call("commit", "", <<>>, EmptyDict)
    IN IF e.err # "none"
       THEN DbOutcome("NameError", "execute", {}, e.db, <<c1>>)
       ELSE IF commit
       THEN DbOutcome("none", "none", {}, k.db, <<c1, c2>>)
       ELSE DbOutcome("none", "none", {}, e.db, <<c1>>)

\* The data handed to write_batch: a list (array) of items or something
\* that is no list.  Item i is the row with key i, in one of the shapes
\*   flat {"a": i}, wide {"a": i, "b": 0}, nested {"a": {"k": i}}, scalar i.
\* The table has the columns a (its key) and b.
MaxBatch == 2
Shapes == {"flat", "wide", "nested", "scalar"}
Batches ==
    {[array |-> FALSE, items |-> <<>>]}
        \cup {[array |-> TRUE, items |-> it] :
                it \in UNION {[1..n -> Shapes] : n \in 0..MaxBatch}}
BatchSizes == {1, 2}

\* data.keys() of an item that is a mapping.
ItemKeys(shape) == IF shape = "wide" THEN {"a", "b"} ELSE {"a"}

\* cur.mogrify(query, item) of execute_batch: the named fields of the
\* statement are looked up in the item and their values adapted.
mogrify(fields, shape) ==
    IF shape = "scalar" THEN "TypeError"
    ELSE IF ~(fields \subseteq ItemKeys(shape)) THEN "KeyError"
    ELSE IF shape = "nested" THEN "ProgrammingError"
    ELSE "none"

\* The first item of items[from..to] that mogrify refuses, 0 if none.
FirstRefused(fields, items, from, to) ==
    LET bad == {i \in from..to : mogrify(fields, items[i]) # "none"}
    IN IF bad = {} THEN 0 ELSE CHOOSE i \in bad : \A j \in bad : i <= j

\* cur.execute of the statements of one page, joined: they are run one
\* after the other and the first that fails ends the page; the server runs
\* the joined statements in one transaction.
RECURSIVE execute_page(_, _, _, _)
execute_page(c, d, from, to) ==
    IF from > to THEN [err |-> "none", db |-> d]
    ELSE LET e == conn_execute(c, d, [kind |-> "insert", row |-> from])
         IN IF e.err # "none" THEN [err |-> e.err, db |-> e.db]
            ELSE execute_page(c, e.db, from + 1, to)

\* psycopg2.extras.execute_batch(cur, query, data, page_size): page after
\* page, the statements of the page are built with mogrify and then sent.
RECURSIVE execute_batch(_, _, _, _, _, _, _)
execute_batch(c, d, fields, items, from, page_size, cs) ==
    LET to == IF from + page_size - 1 < Len(items) THEN from + page_size - 1 ELSE Len(items)
        bad == FirstRefused(fields, items, from, to)
        e == execute_page(c, d, from, to)
        cs1 == Append(cs, Call("execute", "", <<>>, EmptyDict))
    IN IF from > Len(items) THEN [err |-> "none", db |-> d, calls |-> cs]
       ELSE IF bad # 0
       THEN [err |-> mogrify(fields, items[bad]), db |-> d, calls |-> cs]
       ELSE IF e.err # "none"
       THEN [err |-> e.err,
             db |-> IF e.db.status = d.status THEN d
                    ELSE [d EXCEPT !.status = e.db.status],
             calls |-> cs1]
       ELSE execute_batch(c, e.db, fields, items, to + 1, page_size, cs1)

\* database/postgres.py Client.write_batch.  The schema the data is held
\* against asks for a list whose first item is a mapping and says nothing
\* of the items after it; the statement is built from the keys of the
\* first item; Python's own errors are not caught.  (The raise of line 201
\* is read with its third parenthesis closed.)
write_batch(c, d, data, batch_size) ==
    LET items == data.items
        b == execute_batch(c, d, ItemKeys(items[1]), items, 1, batch_size, <<>>)
    IN IF ~data.array \/ (Len(items) >= 1 /\ items[1] = "scalar")
       THEN DbOutcome(Raised(c, "DataStructureError"), "validate", {}, d, <<>>)
       ELSE IF Len(items) = 0
       THEN DbOutcome("IndexError", "data[0]", {}, d, <<>>)
       ELSE IF c.state # "connected"
       THEN DbOutcome(Raised(c, "DatabaseError"), "cursor", {}, d, <<>>)
       ELSE IF b.err \in {"TypeError", "KeyError"}
       THEN DbOutcome(b.err, "mogrify", {}, b.db, b.calls)
       ELSE IF b.err # "none"
       THEN DbOutcome(Raised(c, "DatabaseError"), "execute_batch", {}, b.db, b.calls)
       ELSE DbOutcome("none", "none", {}, b.db, b.calls)

\* commit(), rollback() and close() hand over to the connection; what it
\* raises reaches the caller as it is.
commit(c, d) ==
    LET k == conn_commit(c, d)
    IN DbOutcome(k.err, IF k.err = "none" THEN "none" ELSE "commit", {}, k.db,
                 <<Call("commit", "", <<>>, EmptyDict)>>)

rollback(c, d) ==
    LET k == conn_rollback(c, d)
    IN DbOutcome(k.err, IF k.err = "none" THEN "none" ELSE "rollback", {}, k.db,
                 <<Call("rollback", "", <<>>, EmptyDict)>>)

close(c, d) ==
    LET k == conn_close(c, d)
    IN DbOutcome(k.err, "none", {}, k.db, <<Call("close", "", <<>>, EmptyDict)>>)

\* download_file of the SDK: it asks for the object's size with a HEAD
\* request, then writes the file.  named: the answer to the request on a
\* missing bucket names the error (a HEAD answer of S3 has no body to do so).
sdk_download_file(st, files, Filename, Bucket, Key, fault, named) ==
    LET Answer(err, fl) == [err |-> err, files |-> fl]
    IN IF Bucket = "" THEN Answer("ParamValidationError", files)
       ELSE IF fault # "none" THEN Answer(fault, files)
       ELSE IF Bucket \notin DOMAIN st
       THEN Answer(IF named THEN "NoSuchBucket" ELSE "404", files)
       ELSE IF st[Bucket][Key] = NoObj THEN Answer("404", files)
       ELSE IF Filename \in NoDirPaths THEN Answer("FileNotFoundError", files)
       ELSE IF Filename \in ReadOnlyPaths THEN Answer("PermissionError", files)
       ELSE Answer("none",
                   [files EXCEPT ![Filename] = [exists |-> TRUE, data |-> st[Bucket][Key].body]])

download(st, files, bucket, path_source, path_destination, configuration, fault, named) ==
    LET v == validate(S3_TRANSFER_SCHEMA, configuration.d)
        Config == IF Truthy(configuration) THEN v.data
                  ELSE [k \in DOMAIN S3_TRANSFER_SCHEMA.properties |->
                            S3_TRANSFER_SCHEMA.properties[k].default]
        r == sdk_download_file(st, files, path_destination, bucket, path_source, fault, named)
        cs == <<Call("download_file", bucket, path_source, Config)>>
        exc == CASE r.err = "none" -> "none"
                 [] r.err \in {"NotADirectoryError", "FileNotFoundError"} -> "DestinationPathError"
                 [] r.err = "PermissionError" -> "DestinationPathPermissionsError"
                 [] r.err = "NoSuchBucket" -> "BucketNotFound"
                 [] r.err = "404" -> "ObjectNotFound"
                 \* no ClientError: not caught
                 [] r.err \in {"ParamValidationError", "NoCredentialsError"} -> r.err
                 [] OTHER -> "Exception"
    IN IF Truthy(configuration) /\ ~v.ok
       THEN [out |-> ConfigurationError(v, st, configuration.d), files |-> files]
       ELSE [out |-> Outcome(exc, IF exc = "none" THEN "none" ELSE "download_file",
                             NoBytes, <<>>, st, cs,
                             IF Truthy(configuration) THEN v.data ELSE configuration.d),
             files |-> r.files]

\* upload_file of the SDK: it reads the local file and puts it under the
\* key.  A ClientError of the provider reaches the caller wrapped in
\* S3UploadFailedError; an argument the SDK refuses does so as it is.
sdk_upload_file(st, files, Filename, Bucket, Key, fault) ==
    IF Bucket = "" THEN Reply("ParamValidationError", st, NoBytes, "none")
    ELSE IF fault # "none" \/ Bucket \notin DOMAIN st
    THEN Reply("S3UploadFailedError", st, NoBytes, "none")
    ELSE Reply("none",
               [st EXCEPT ![Bucket][Key] =
                    [body |-> files[Filename].data, ctype |-> DefaultCType]],
               NoBytes, "none")

\* os.path.exists(path_source)
exists(files, path) == path \in DOMAIN files /\ files[path].exists

\* upload() that leaves it to the SDK to find the local file missing.
upload_unchecked(st, files, bucket, path_source, path_destination, fault) ==
    LET Key == IF path_destination # Omitted THEN path_destination ELSE path_source
        r == sdk_upload_file(st, files, path_source, bucket, Key, fault)
        cs == <<Call("upload_file", bucket, Key, EmptyDict)>>
        exc == CASE r.err = "none" -> "none"
                 [] r.err = "S3UploadFailedError" -> "BucketNotFound"
                 [] OTHER -> "Exception"
    IN IF ~exists(files, path_source)
       THEN Outcome("FileNotFoundError", "upload_file", NoBytes, <<>>, st, cs, EmptyDict)
       ELSE Outcome(exc, IF exc = "none" THEN "none" ELSE "upload_file",
                    NoBytes, <<>>, r.store, cs, EmptyDict)

upload(st, files, bucket, path_source, path_destination, fault) ==
    LET Key == IF path_destination # Omitted THEN path_destination ELSE path_source
        r == sdk_upload_file(st, files, path_source, bucket, Key, fault)
        cs == <<Call("upload_file", bucket, Key, EmptyDict)>>
        exc == CASE r.err = "none" -> "none"
                 [] r.err = "S3UploadFailedError" -> "BucketNotFound"
                 [] OTHER -> "Exception"
    IN IF ~exists(files, path_source)
       THEN Outcome("FileNotFoundError", "os.path.exists", NoBytes, <<>>, st, <<>>, EmptyDict)
       ELSE Outcome(exc, IF exc = "none" THEN "none" ELSE "upload_file",
                    NoBytes, <<>>, r.store, cs, EmptyDict)

----------------------------------------------------------------------------
(* State machine of the S3 adapter.  A caller invokes one method at a time  *)
(* (the adapter is synchronous): a method step takes the idle adapter to   *)
(* the state in which the call has completed, with its outcome in last;    *)
(* Return hands control back to the caller.                                *)

NoArgs ==
    [bucket |-> "", path |-> <<>>, bucket_destination |-> "", path_destination |-> <<>>,
     obj |-> [type |-> "bytes", data |-> NoBytes], paths |-> {}, denied |-> {},
     prefix |-> <<>>, max_objects |-> 0, configuration |-> NoConfig, strict |-> FALSE,
     accepted |-> TRUE, faults |-> <<"none", "none", "none">>, failAt |-> 0,
     query |-> [kind |-> "select", row |-> 0], autocommit |-> TRUE, commit |-> TRUE,
     rows |-> [array |-> TRUE, items |-> <<>>], batch_size |-> 1]

Idle ==
    [op |-> "idle", args |-> NoArgs, exc |-> "none", origin |-> "none",
     data |-> NoBytes, listing |-> <<>>, cfg |-> EmptyDict, mentions |-> {},
     pre |-> NoObj]

\* pre: the object at (args.bucket, args.path) when the method was invoked.
Done(op, args, out, pre) ==
    [op |-> op, args |-> args, exc |-> out.exc, origin |-> out.origin,
     data |-> out.data, listing |-> out.listing, cfg |-> out.cfg,
     mentions |-> out.mentions, pre |-> pre]

ObjectAt(st, bucket, path) ==
    IF bucket \in DOMAIN st /\ path \in Keys THEN st[bucket][path] ELSE NoObj

\* The S3 client as constructed by Client() with no configuration.
DefaultS3Client == S3Client__init__(NoConfig, TRUE).client

\* Argument sets of the calls.
ObjBuckets == ExistingBuckets \cup {"nb"}
WriteConfigs == {NoConfig, Dict("ContentType" :> "application/json")}
CopyConfigs == {NoConfig, Dict("ContentType" :> "application/json"),
                Dict("MetadataDirective" :> "COPY"), Dict("MetadataDirective" :> "REPLACE")}
NoFaults == <<"none", "none", "none">>
\* At most one call of a method is answered with an error: the method stops there.
FaultPlans(n) ==
    {NoFaults} \cup
    {[i \in 1..3 |-> IF i = j THEN "AccessDenied" ELSE "none"] : j \in 1..n}

\* The answers of the provider to a method that issues one call.
Only(fault) == <<fault, "none", "none">>

Fits(st) == Cardinality(Stored(st)) <= MaxObjects

\* The adapter is idle and the client exists: a method can be invoked.
Ready == last.op = "idle" /\ s3client.constructed

Apply(op, args, out) ==
    /\ Fits(out.store)
    /\ store' = out.store
    /\ calls' = out.calls
    /\ last' = Done(op, args, out, ObjectAt(store, args.bucket, args.path))
    /\ UNCHANGED <<fs, s3client, dbclient, db, retried>>

Read ==
    /\ Ready
    /\ \E bucket \in BucketNames, path \in Keys, fault \in Faults :
        \E out \in {read(store, bucket, path, fault)} :
            Apply("read", [NoArgs EXCEPT !.bucket = bucket, !.path = path,
                                 !.faults = Only(fault)], out)

Write ==
    /\ Ready
    /\ \E obj \in Payloads, bucket \in BucketNames, path \in Keys,
          configuration \in WriteConfigs :
        \E fault \in IF configuration = NoConfig /\ obj.type = "bytes"
                     THEN Faults ELSE {"none"} :
            \E out \in {write(store, obj, bucket, path, configuration, fault)} :
                Apply("write",
                      [NoArgs EXCEPT !.obj = obj, !.bucket = bucket, !.path = path,
                                     !.configuration = configuration,
                                     !.faults = Only(fault)],
                      out)

DeleteObject ==
    /\ Ready
    /\ \E bucket \in BucketNames, path \in Keys, fault \in Faults :
        \E out \in {delete_object(store, bucket, path, fault)} :
            Apply("delete_object", [NoArgs EXCEPT !.bucket = bucket, !.path = path,
                                 !.faults = Only(fault)], out)

DeleteObjects ==
    /\ Ready
    /\ \E bucket \in ObjBuckets, paths \in SUBSET Keys \ {{}}, fault \in Faults :
        \E denied \in IF fault = "none" THEN SUBSET paths ELSE {{}} :
            \E out \in {delete_objects(store, bucket, paths, denied, fault)} :
                Apply("delete_objects",
                      [NoArgs EXCEPT !.bucket = bucket, !.paths = paths, !.denied = denied,
                                     !.faults = Only(fault)],
                      out)

ListBuckets ==
    /\ Ready
    /\ \E fault \in Faults \cup {"InvalidAccessKeyId"} :
        \E out \in {list_buckets(store, fault)} :
            Apply("list_buckets", [NoArgs EXCEPT !.faults = Only(fault)], out)

\* max_objects = 0 stands for max_objects omitted (None): both are falsy.
ListObjects ==
    /\ Ready
    /\ \E bucket \in BucketNames, prefix \in Prefixes, max_objects \in {0, 1},
          fault \in Faults, failAt \in 0..2 :
        /\ (fault = "none") = (failAt = 0)
        /\ fault # "none" => max_objects = 0
        /\ \E out \in {list_objects(store, bucket, prefix, max_objects, fault, failAt)} :
            Apply("list_objects",
                  [NoArgs EXCEPT !.bucket = bucket, !.prefix = prefix,
                                 !.max_objects = max_objects,
                                 !.faults = Only(fault), !.failAt = failAt],
                  out)

ListObjectsSize ==
    /\ Ready
    /\ \E bucket \in ObjBuckets, prefix \in Prefixes :
        \E out \in {list_objects_size(store, bucket, prefix, 0, "none", 0)} :
            Apply("list_objects_size",
                  [NoArgs EXCEPT !.bucket = bucket, !.prefix = prefix], out)

\* The GCS client is used as the S3 client is: on the same buckets.
GcsListObjects ==
    /\ Ready
    /\ \E bucket \in BucketNames, prefix \in Prefixes, max_objects \in {0, 1},
          fault \in {"none", "Forbidden"} :
        \E out \in {gcs_list_objects(store, bucket, prefix, max_objects, fault)} :
            Apply("gcs_list_objects",
                  [NoArgs EXCEPT !.bucket = bucket, !.prefix = prefix,
                                 !.max_objects = max_objects, !.faults = Only(fault)],
                  out)

\* The coordinates the copy writes to.
Effective(bucket_destination, path_source, path_destination) ==
    <<bucket_destination,
      IF path_destination # Omitted THEN path_destination ELSE path_source>>

Copy ==
    /\ Ready
    /\ \E bucket_source \in BucketNames, bucket_destination \in ObjBuckets,
          path_source \in Keys, path_destination \in Keys \cup {Omitted},
          configuration \in CopyConfigs :
        \E faults \in IF configuration = NoConfig THEN FaultPlans(2) ELSE {NoFaults},
           strict \in IF Effective(bucket_destination, path_source, path_destination)
                          = <<bucket_source, path_source>>
                      THEN BOOLEAN ELSE {TRUE} :
            \E out \in {copy(store, bucket_source, bucket_destination, path_source,
                             path_destination, configuration, faults, strict)} :
                Apply("copy",
                      [NoArgs EXCEPT !.bucket = bucket_source,
                                     !.bucket_destination = bucket_destination,
                                     !.path = path_source,
                                     !.path_destination = path_destination,
                                     !.configuration = configuration,
                                     !.strict = strict,
                                     !.faults = faults],
                      out)

Move ==
    /\ Ready
    /\ \E bucket_source \in ObjBuckets, bucket_destination \in ObjBuckets,
          path_source \in Keys, path_destination \in Keys \cup {Omitted},
          configuration \in CopyConfigs :
        \E faults \in IF configuration = NoConfig THEN FaultPlans(3) ELSE {NoFaults},
           strict \in IF Effective(bucket_destination, path_source, path_destination)
                          = <<bucket_source, path_source>>
                      THEN BOOLEAN ELSE {TRUE} :
            \E out \in {move(store, bucket_source, bucket_destination, path_source,
                             path_destination, configuration, faults, strict)} :
                Apply("move",
                      [NoArgs EXCEPT !.bucket = bucket_source,
                                     !.bucket_destination = bucket_destination,
                                     !.path = path_source,
                                     !.path_destination = path_destination,
                                     !.configuration = configuration,
                                     !.strict = strict,
                                     !.faults = faults],
                      out)

\* The database when the client is replaced by a new one: the connection of
\* the old one is dropped and with it the work it had not committed.
Reconnected(d) == [d EXCEPT !.working = d.committed, !.status = "idle"]

\* The outcome r.out of a call that leaves the store as it is.
Constructed(op, args, r) ==
    /\ last' = Done(op, args, r.out, ObjectAt(store, args.bucket, args.path))
    /\ calls' = r.out.calls

ValidKeyId == Str(20, TRUE, TRUE)
ValidSecret == Str(40, TRUE, TRUE)
ValidArn == Str(9, TRUE, TRUE)

StsConfigs ==
    {Dict([role_arn |-> ValidArn]),
     Dict([region_name |-> AnyStr, role_arn |-> ValidArn]),
     Dict([aws_access_key_id |-> ValidKeyId, aws_secret_access_key |-> ValidSecret,
           role_arn |-> ValidArn]),
     Dict([region_name |-> AnyStr, role_arn |-> Str(9, FALSE, TRUE)]),
     Dict([region_name |-> AnyStr]),
     Dict([role_arn |-> ValidArn, aws_session_token |-> AnyStr]),
     Dict([role_arn |-> VInt])}

AssumeRole ==
    /\ last.op = "idle"
    /\ \E configuration \in StsConfigs, answer \in StsAnswers :
        \E out \in {assume_role(configuration, answer)} :
            /\ Constructed("assume_role",
                           [NoArgs EXCEPT !.configuration = configuration,
                                          !.faults = Only(answer)], [out |-> out])
            /\ UNCHANGED <<store, fs, s3client, dbclient, db, retried>>

TransferConfigs ==
    {NoConfig,
     Dict([max_concurrency |-> VInt, use_threads |-> VBool]),
     Dict([a |-> VInt]),
     Dict([use_threads |-> AnyStr])}

\* Local paths a transfer is given.
LocalPaths == WritablePaths \cup ReadOnlyPaths \cup NoDirPaths

\* For upload, args.path is the local file and args.path_destination the key.
Upload ==
    /\ Ready
    /\ \E bucket \in BucketNames, path_source \in LocalPaths,
          path_destination \in Keys \cup {Omitted}, fault \in Faults :
        \E out \in {upload(store, fs, bucket, path_source, path_destination, fault)} :
            Apply("upload",
                  [NoArgs EXCEPT !.bucket = bucket, !.path = path_source,
                                 !.path_destination = path_destination,
                                 !.faults = Only(fault)],
                  out)

Download ==
    /\ Ready
    /\ \E bucket \in BucketNames, path_source \in Keys,
          path_destination \in LocalPaths,
          configuration \in TransferConfigs :
        \E fault \in IF configuration = NoConfig THEN Faults ELSE {"none"},
           named \in IF bucket = "nb" THEN BOOLEAN ELSE {TRUE} :
            \E r \in {download(store, fs, bucket, path_source, path_destination,
                               configuration, fault, named)} :
                /\ Constructed("download",
                               [NoArgs EXCEPT !.bucket = bucket, !.path = path_source,
                                              !.path_destination = path_destination,
                                              !.configuration = configuration,
                                              !.faults = Only(fault)],
                               r)
                /\ fs' = r.files
                /\ UNCHANGED <<store, s3client, dbclient, db, retried>>

\* The call is over: control is back with the caller.
Return ==
    /\ last.op # "idle"
    /\ last' = Idle
    /\ calls' = <<>>
    /\ UNCHANGED <<store, fs, s3client, dbclient, db, retried>>

Init ==
    /\ store = EmptyStore
    /\ fs = NoFiles
    /\ last = Idle
    /\ calls = <<>>
    /\ s3client = DefaultS3Client
    /\ dbclient = NoDbClient
    /\ db = EmptyDb
    /\ retried = NoRetry

Next ==
    \/ Read
    \/ Write
    \/ DeleteObject
    \/ DeleteObjects
    \/ ListBuckets
    \/ ListObjects
    \/ ListObjectsSize
    \/ GcsListObjects
    \/ Copy
    \/ Move
    \/ Upload
    \/ Download
    \/ AssumeRole
    \/ Return

Spec == Init /\ [][Next]_vars

----------------------------------------------------------------------------
(* State machine of the construction of the clients and of download with   *)
(* a transfer configuration.                                               *)

\* Not one of the values a property enumerates.
Unlisted == Str(9, TRUE, FALSE)

S3Configs ==
    {NoConfig,
     Dict(EmptyDict),
     Dict([aws_access_key_id |-> ValidKeyId, aws_secret_access_key |-> ValidSecret]),
     Dict([aws_access_key_id |-> Str(18, FALSE, TRUE), aws_secret_access_key |-> ValidSecret]),
     Dict([aws_access_key_id |-> ValidKeyId, aws_secret_access_key |-> Str(38, FALSE, TRUE)]),
     Dict([aws_access_key_id |-> Str(20, FALSE, TRUE), aws_secret_access_key |-> ValidSecret]),
     Dict([region_name |-> AnyStr, use_ssl |-> VBool]),
     Dict([region_name |-> Unlisted]),
     Dict([use_ssl |-> AnyStr]),
     Dict([bucket |-> AnyStr]),
     Dict([endpoint_url |-> AnyStr, config |-> Obj([max_pool_connections |-> VInt])]),
     Dict([config |-> Obj([retries |-> Obj([mode |-> Unlisted])])]),
     Dict([config |-> Obj([connect_timeout |-> VInt])]),
     Dict([config |-> Obj([connect_timeout |-> VNum])])}

DbConfigs ==
    {CONF_DEFAULT,
     [dbname |-> AnyStr, user |-> AnyStr, password |-> AnyStr],
     [host |-> AnyStr, dbname |-> AnyStr, port |-> VInt, password |-> AnyStr],
     [host |-> AnyStr],
     EmptyDict,
     [dbname |-> AnyStr, user |-> AnyStr, password |-> AnyStr, port |-> AnyStr],
     [dbname |-> AnyStr, user |-> AnyStr, password |-> VInt],
     [dbname |-> AnyStr, user |-> AnyStr, password |-> AnyStr, sslmode |-> AnyStr]}

PopulatedStore ==
    [EmptyStore EXCEPT !["b1"][<<"b">>] = [body |-> <<120>>, ctype |-> "application/json"]]

S3Construct ==
    /\ last.op = "idle"
    /\ \E configuration \in S3Configs, accepted \in BOOLEAN :
        \E r \in {S3Client__init__(configuration, accepted)} :
            /\ Constructed("S3Client",
                           [NoArgs EXCEPT !.configuration = configuration,
                                          !.accepted = accepted], r)
            /\ s3client' = IF r.out.exc = "none" THEN r.client ELSE s3client
            /\ UNCHANGED <<store, fs, dbclient, db, retried>>

DbConstruct ==
    /\ last.op = "idle"
    /\ \E config \in DbConfigs, autocommit \in BOOLEAN, connects \in BOOLEAN :
        \E r \in {DbClient__init__(config, autocommit, connects)} :
            /\ Constructed("DbClient",
                           [NoArgs EXCEPT !.configuration = Dict(config),
                                          !.accepted = connects,
                                          !.autocommit = autocommit], r)
            /\ dbclient' = IF r.out.exc = "none" THEN r.client ELSE dbclient
            /\ db' = IF r.out.exc = "none" THEN Reconnected(db) ELSE db
            /\ UNCHANGED <<store, fs, s3client, retried>>

InitConfig ==
    /\ store \in {EmptyStore, PopulatedStore}
    /\ fs = NoFiles
    /\ last = Idle
    /\ calls = <<>>
    /\ s3client = NoClient
    /\ dbclient = NoDbClient
    /\ db = EmptyDb
    /\ retried = NoRetry

NextConfig ==
    \/ S3Construct
    \/ DbConstruct
    \/ AssumeRole
    \/ Download
    \/ Return

SpecConfig == InitConfig /\ [][NextConfig]_vars

----------------------------------------------------------------------------
(* State machine of the database clients: construction, queries and the    *)
(* transaction calls on the one connection the client owns.                *)

\* A client object exists (disconnected: none was constructed yet).
DbReady == last.op = "idle" /\ dbclient.state # "disconnected"

\* last.pre: the database when the operation was invoked.
DbApply(op, args, out, client) ==
    /\ last' = Done(op, args, out, db)
    /\ calls' = out.calls
    /\ db' = out.db
    /\ dbclient' = client
    /\ UNCHANGED <<store, fs, s3client, retried>>

PgConstruct ==
    /\ last.op = "idle"
    /\ \E config \in DbConfigs, autocommit \in BOOLEAN, connects \in BOOLEAN :
        \E r \in {PgClient__init__(config, autocommit, connects)} :
            /\ Constructed("PgClient",
                           [NoArgs EXCEPT !.configuration = Dict(config),
                                          !.accepted = connects,
                                          !.autocommit = autocommit], r)
            /\ dbclient' = IF r.out.exc = "none" THEN r.client ELSE dbclient
            /\ db' = IF r.out.exc = "none" THEN Reconnected(db) ELSE db
            /\ UNCHANGED <<store, fs, s3client, retried>>

QueryFetch ==
    /\ DbReady
    /\ \E query \in Queries :
        \E out \in {query_fetch(dbclient, db, query)} :
            DbApply("query_fetch", [NoArgs EXCEPT !.query = query], out, dbclient)

QueryCud ==
    /\ DbReady
    /\ \E query \in Queries, commit_ \in BOOLEAN :
        /\ dbclient.kind = "redshift" => commit_
        /\ \E out \in {IF dbclient.kind = "redshift"
                       THEN query_cud(dbclient, db, query)
                       ELSE pg_query_cud(dbclient, db, query, commit_)} :
            DbApply("query_cud", [NoArgs EXCEPT !.query = query, !.commit = commit_],
                    out, dbclient)

WriteBatch ==
    /\ DbReady
    /\ dbclient.kind = "postgres"
    /\ \E data \in Batches, batch_size \in BatchSizes :
        \E out \in {write_batch(dbclient, db, data, batch_size)} :
            DbApply("write_batch", [NoArgs EXCEPT !.rows = data, !.batch_size = batch_size],
                    out, dbclient)

Commit ==
    /\ DbReady
    /\ \E out \in {commit(dbclient, db)} : DbApply("commit", NoArgs, out, dbclient)

Rollback ==
    /\ DbReady
    /\ \E out \in {rollback(dbclient, db)} : DbApply("rollback", NoArgs, out, dbclient)

Close ==
    /\ DbReady
    /\ \E out \in {close(dbclient, db)} :
        DbApply("close", NoArgs, out, [dbclient EXCEPT !.state = "closed"])

\* The server ends the session of the connected client (restart, idle
\* timeout, network): the work not committed is gone, and what the client
\* sends next is answered with an error of psycopg2.
ConnectionLost ==
    /\ DbReady
    /\ dbclient.state = "connected"
    /\ db.status # "lost"
    /\ db' = [db EXCEPT !.working = db.committed, !.status = "lost"]
    /\ UNCHANGED <<store, fs, last, calls, s3client, dbclient, retried>>

InitDb ==
    /\ store = EmptyStore
    /\ fs = NoFiles
    /\ last = Idle
    /\ calls = <<>>
    /\ s3client = NoClient
    /\ dbclient = NoDbClient
    /\ db = EmptyDb
    /\ retried = NoRetry

NextDb ==
    \/ DbConstruct
    \/ PgConstruct
    \/ QueryFetch
    \/ QueryCud
    \/ WriteBatch
    \/ Commit
    \/ Rollback
    \/ Close
    \/ ConnectionLost
    \/ Return

SpecDb == InitDb /\ [][NextDb]_vars

----------------------------------------------------------------------------
(* State machine of a function wrapped by connection_retry: a call of the  *)
(* wrapper with the behaviour of the function drawn, and its return.       *)

Retry ==
    /\ ~retried.called
    /\ \E max_attempts \in 0..MaxAttempts, plan \in Plans :
        retried' = wrapper(max_attempts, plan, 0, 0, 0)
    /\ UNCHANGED <<store, fs, last, calls, s3client, dbclient, db>>

RetryReturn ==
    /\ retried.called
    /\ retried' = NoRetry
    /\ UNCHANGED <<store, fs, last, calls, s3client, dbclient, db>>

InitRetry ==
    /\ store = EmptyStore
    /\ fs = NoFiles
    /\ last = Idle
    /\ calls = <<>>
    /\ s3client = NoClient
    /\ dbclient = NoDbClient
    /\ db = EmptyDb
    /\ retried = NoRetry

NextRetry ==
    \/ Retry
    \/ RetryReturn

SpecRetry == InitRetry /\ [][NextRetry]_vars

----------------------------------------------------------------------------
(* Properties of the object operations (Spec).  last holds the call that   *)
(* has just completed, last.pre the object that was at its (bucket, path)  *)
(* when it was invoked, store the provider state it left, calls the        *)
(* provider calls it issued.                                               *)

Range(seq) == {seq[i] : i \in DOMAIN seq}
Source(l) == <<l.args.bucket, l.args.path>>
Destination(l) == Effective(l.args.bucket_destination, l.args.path, l.args.path_destination)

\* The completed call l wrote to (bucket, key).
WritesTo(l, bucket, key) ==
    \/ l.op = "write" /\ Source(l) = <<bucket, key>>
    \/ l.op \in {"copy", "move"} /\ Destination(l) = <<bucket, key>>
    \/ /\ l.op = "upload"
       /\ Effective(l.args.bucket, l.args.path, l.args.path_destination) = <<bucket, key>>

\* The completed call l asked for (bucket, key) to be deleted.
Deletes(l, bucket, key) ==
    \/ l.op \in {"delete_object", "move"} /\ Source(l) = <<bucket, key>>
    \/ l.op = "delete_objects" /\ l.args.bucket = bucket /\ key \in l.args.paths

\* What a read of (bucket, key) gives whatever the provider answers: the
\* bytes body when the provider serves the request, an error otherwise.
ReadsBack(st, bucket, key, body) ==
    \A fault \in Faults :
        LET r == read(st, bucket, key, fault)
        IN IF fault = "none"
           THEN r.exc = "none" /\ r.data = body
           ELSE r.exc # "none"

\* C3: a write(obj, bucket, path) that returns without error is followed by
\* a read(bucket, path) returning bytes identical to obj as long as no write
\* or delete of that (bucket, path) intervenes: the read right after the
\* write gives obj, a step that is no write or delete of (bucket, path)
\* leaves the object there as it is, and a read never changes the store and
\* returns the bytes stored.
C3_WriteThenRead ==
    /\ [](last.op = "write" /\ last.exc = "none"
            => ReadsBack(store, last.args.bucket, last.args.path, last.args.obj.data))
    /\ [][/\ \A bucket \in ExistingBuckets, key \in Keys :
                store'[bucket][key] # store[bucket][key]
                    => WritesTo(last', bucket, key) \/ Deletes(last', bucket, key)
          /\ last'.op = "read"
                => /\ store' = store
                   /\ last'.exc = "none"
                        => last'.data = store[last'.args.bucket][last'.args.path].body]_vars

\* An object was overwritten with other bytes.
C3_Witness ==
    /\ last.op = "write"
    /\ last.exc = "none"
    /\ last.pre # NoObj
    /\ last.pre.body # last.args.obj.data

\* C4 as stated: list_objects(bucket, prefix) on an existing bucket returns
\* exactly the keys stored in the bucket that start with prefix (so that two
\* calls with no write or delete in between return the same).
C4_ListingExact ==
    (/\ last.op = "list_objects"
     /\ last.args.bucket \in ExistingBuckets)
    => /\ last.exc = "none"
       /\ Range(last.listing)
            = {k \in Keys : /\ store[last.args.bucket][k] # NoObj
                            /\ StartsWith(k, last.args.prefix)}

\* C5: a delete_object(bucket, path) of an existing object that returns
\* without error is followed by a read(bucket, path) that fails with
\* ObjectNotFound as long as no write to that path intervenes: the read
\* right after the delete fails with ObjectNotFound (and succeeds under no
\* answer of the provider), and an absent object stays absent through every
\* step that does not write to its (bucket, path).
C5_DeleteThenRead ==
    /\ []((/\ last.op = "delete_object"
           /\ last.exc = "none"
           /\ last.pre # NoObj)
          => /\ read(store, last.args.bucket, last.args.path, "none").exc = "ObjectNotFound"
             /\ \A fault \in Faults :
                    read(store, last.args.bucket, last.args.path, fault).exc # "none")
    /\ [][\A bucket \in ExistingBuckets, key \in Keys :
            (store[bucket][key] = NoObj /\ store'[bucket][key] # NoObj)
                => WritesTo(last', bucket, key)]_vars

\* An existing object was deleted while another object stayed in the store.
C5_Witness ==
    /\ last.op = "delete_object"
    /\ last.exc = "none"
    /\ last.pre # NoObj
    /\ Stored(store) # {}

\* C6: after a copy that returns without error the destination holds the
\* bytes the source held before the copy (a read of it returns them), its
\* content type is that of the source, and the source object is as it was.
C6_CopyPreserves ==
    (last.op = "copy" /\ last.exc = "none")
    => LET dst == Destination(last)
       IN /\ last.pre # NoObj
          /\ ReadsBack(store, dst[1], dst[2], last.pre.body)
          /\ ObjectAt(store, dst[1], dst[2]).ctype = last.pre.ctype
          /\ ObjectAt(store, last.args.bucket, last.args.path) = last.pre

\* An object whose content type is not the default one was copied under the
\* metadata-replace directive.
C6_Witness ==
    /\ last.op = "copy"
    /\ last.exc = "none"
    /\ last.pre.ctype # DefaultCType
    /\ Len(calls) = 2
    /\ Get(calls[2].kwargs, "MetadataDirective", "COPY") = "REPLACE"

\* C7: after a move that returns without error to coordinates that differ
\* from those of the source, a read of the destination succeeds with the
\* bytes and the content type of the original, and a read of the source
\* fails with ObjectNotFound.
C7_MoveRelocates ==
    (/\ last.op = "move"
     /\ last.exc = "none"
     /\ Destination(last) # Source(last))
    => LET dst == Destination(last)
       IN /\ last.pre # NoObj
          /\ ReadsBack(store, dst[1], dst[2], last.pre.body)
          /\ ObjectAt(store, dst[1], dst[2]).ctype = last.pre.ctype
          /\ read(store, last.args.bucket, last.args.path, "none").exc = "ObjectNotFound"

\* An object was moved to another bucket with path_destination omitted.
C7_Witness ==
    /\ last.op = "move"
    /\ last.exc = "none"
    /\ last.args.bucket_destination # last.args.bucket
    /\ last.args.path_destination = Omitted
    /\ last.pre.ctype # DefaultCType

\* C8: move is copy followed by delete-source and is not atomic.  A move
\* that returns without error issued get_object, copy_object, delete_object
\* in that order.  A move that fails in its delete step (the copy step
\* succeeded) leaves the source object and the copy at the destination both
\* present and raises the error of the delete step; a move that fails in its
\* copy step issues no delete and leaves the source object as it was.
C8_MoveNotAtomic ==
    last.op = "move"
    => LET dst == Destination(last)
           apis == [i \in DOMAIN calls |-> calls[i].api]
       IN /\ last.exc = "none" => apis = <<"get_object", "copy_object", "delete_object">>
          /\ last.exc # "none" =>
                IF apis = <<"get_object", "copy_object", "delete_object">>
                THEN /\ last.origin = "delete_object"
                     /\ last.pre # NoObj
                     /\ ObjectAt(store, last.args.bucket, last.args.path) = last.pre
                     /\ ObjectAt(store, dst[1], dst[2]).body = last.pre.body
                ELSE /\ last.origin \in {"get_object", "copy_object"}
                     /\ "delete_object" \notin Range(apis)
                     /\ ObjectAt(store, last.args.bucket, last.args.path) = last.pre

\* The delete step of a move to other coordinates failed: two live copies.
C8_Witness ==
    /\ last.op = "move"
    /\ last.origin = "delete_object"
    /\ Destination(last) # Source(last)
    /\ ObjectAt(store, last.args.bucket, last.args.path) # NoObj

\* C9 as stated: a copy whose effective destination (bucket_destination and
\* path_destination or, when that is omitted, path_source) is the source
\* sends its copy request with MetadataDirective = REPLACE; a copy to other
\* coordinates sends the directive of the caller's configuration, if any.
C9_ReplaceOnSelfCopy ==
    (last.op = "copy" /\ Len(calls) = 2)
    => IF Destination(last) = Source(last)
       THEN Get(calls[2].kwargs, "MetadataDirective", "absent") = "REPLACE"
       ELSE Get(calls[2].kwargs, "MetadataDirective", "absent")
                = Get(last.args.configuration.d, "MetadataDirective", "absent")

\* C10 as stated: when the provider cannot delete some of the keys of a
\* delete_objects(bucket, paths), the other keys of paths are deleted and
\* the failures are reported to the caller.
C10_BulkDeleteReports ==
    (/\ last.op = "delete_objects"
     /\ last.args.bucket \in ExistingBuckets
     /\ last.args.denied # {})
    => /\ \A k \in last.args.paths \ last.args.denied :
            store[last.args.bucket][k] = NoObj
       /\ \/ last.exc # "none"
          \/ last.listing # <<>>
          \/ last.data # NoBytes

----------------------------------------------------------------------------
(* Properties of the construction of the clients (SpecConfig).              *)

\* The schema a call validates its configuration against.
SchemaOf(op) ==
    CASE op = "S3Client" -> CLIENT_CONFIG_SCHEMA
      [] op = "DbClient" -> SCHEMA
      [] OTHER -> S3_TRANSFER_SCHEMA

ValidatingOps == {"S3Client", "DbClient", "download"}
Conforms(schema, d) == Check(schema, Obj(d), "data").ok

\* C1: schema validation precedes every SDK call.  A call of the S3 Client
\* constructor, of the database Client constructor or of download() whose
\* configuration violates the schema fails with ConfigurationError without
\* having issued an SDK call (boto3.client, psycopg2.connect, download_file)
\* and leaves no client behind: the clients, the store and the files are as
\* before the call.
C1_ValidationPrecedesSdk ==
    [][(/\ last'.op \in ValidatingOps
        /\ ~Conforms(SchemaOf(last'.op), last'.args.configuration.d))
       => /\ last'.exc = "ConfigurationError"
          /\ calls' = <<>>
          /\ s3client' = s3client
          /\ dbclient' = dbclient
          /\ store' = store
          /\ fs' = fs]_vars

\* An S3 client exists and a later construction with a mapping that breaks
\* the schema (a malformed access key) was refused before any SDK call.
C1_Witness ==
    /\ last.op = "S3Client"
    /\ "aws_access_key_id" \in DOMAIN last.args.configuration.d
    /\ ~Conforms(CLIENT_CONFIG_SCHEMA, last.args.configuration.d)
    /\ last.exc = "ConfigurationError"
    /\ calls = <<>>

\* The fields of a mapping that break the schema: required ones that are
\* absent, and present ones whose value the schema of the property refuses.
RECURSIVE Offending(_, _)
Offending(schema, d) ==
    (schema.required \ DOMAIN d)
    \cup UNION {IF d[k].type = "object" /\ TypeMatches("object", schema.properties[k].types)
                THEN Offending(schema.properties[k], d[k].props)
                ELSE IF Check(schema.properties[k], d[k], k).ok THEN {} ELSE {k}
                : k \in (DOMAIN d) \cap (DOMAIN schema.properties)}

\* A required key is missing, or a string breaks the pattern or the
\* enumeration of its property (at any depth).
RECURSIVE BreaksPatternOrEnum(_, _)
BreaksPatternOrEnum(schema, d) ==
    \E k \in (DOMAIN d) \cap (DOMAIN schema.properties) :
        \/ /\ d[k].type = "string"
           /\ \/ schema.properties[k].pattern /\ ~d[k].pat
              \/ schema.properties[k].enum /\ ~d[k].enum
        \/ /\ d[k].type = "object"
           /\ BreaksPatternOrEnum(schema.properties[k], d[k].props)

MissesRequired(schema, d) == ~(schema.required \subseteq DOMAIN d)

Constructors == {"S3Client", "DbClient"}

\* C2 as stated: construction with a valid configuration succeeds;
\* construction with a configuration missing a required key or breaking a
\* pattern/enum fails with ConfigurationError naming the offending field.
C2_ValidConstructs ==
    last.op \in Constructors =>
        LET schema == SchemaOf(last.op)
            d == last.args.configuration.d
        IN /\ Conforms(schema, d) => last.exc = "none"
           /\ (MissesRequired(schema, d) \/ BreaksPatternOrEnum(schema, d))
                => /\ last.exc = "ConfigurationError"
                   /\ last.mentions \cap Offending(schema, d) # {}

\* C2 amended: construction with a valid configuration never fails with
\* ConfigurationError, and it succeeds whenever the SDK call that opens the
\* session (boto3.client, psycopg2.connect) succeeds; when that call fails
\* the failure is the SDK's (DatabaseConnectionError for the database
\* client).  Construction with a configuration missing a required key or
\* breaking a pattern/enum fails with ConfigurationError naming the
\* offending field.
C2_ValidPassesValidation ==
    last.op \in Constructors =>
        LET schema == SchemaOf(last.op)
            d == last.args.configuration.d
        IN /\ Conforms(schema, d) =>
                /\ last.exc # "ConfigurationError"
                /\ last.args.accepted => last.exc = "none"
                /\ ~last.args.accepted =>
                     /\ last.origin \in {"boto3.client", "psycopg2.connect"}
                     /\ last.op = "DbClient" => last.exc = "DatabaseConnectionError"
           /\ (MissesRequired(schema, d) \/ BreaksPatternOrEnum(schema, d))
                => /\ last.exc = "ConfigurationError"
                   /\ last.mentions \cap Offending(schema, d) # {}

\* The database client was constructed without "user": ConfigurationError
\* whose message names it.
C2_Witness ==
    /\ last.op = "DbClient"
    /\ "user" \notin DOMAIN last.args.configuration.d
    /\ last.exc = "ConfigurationError"
    /\ "user" \in last.mentions

----------------------------------------------------------------------------
(* Properties of the failures of the object operations (Spec).              *)

\* The operations of the adapter that take a bucket.
BucketOps ==
    {"list_objects", "list_objects_size", "read", "write", "upload", "download",
     "copy", "move", "delete_object", "delete_objects"}

\* A bucket the completed call l names does not exist.
NamesAbsentBucket(l) ==
    \/ l.args.bucket \notin ExistingBuckets
    \/ l.op \in {"copy", "move"} /\ l.args.bucket_destination \notin ExistingBuckets

\* The provider answered the calls of l as its state commands (no failure
\* of its own: no refusal of access, no outage).
Served(l) == l.args.faults = NoFaults

\* The completed call l has nothing wrong but the bucket it names: its
\* payload is bytes, its local file exists or can be written, its transfer
\* configuration is valid, and the object it reads exists unless it is the
\* bucket of that object which is absent.
OtherwiseSound(l) ==
    /\ l.op = "write" => l.args.obj.type = "bytes"
    /\ l.op = "upload" => exists(fs, l.args.path)
    /\ l.op = "download"
        => /\ l.args.path_destination \in WritablePaths
           /\ Truthy(l.args.configuration)
                => Conforms(S3_TRANSFER_SCHEMA, l.args.configuration.d)
    /\ l.op \in {"copy", "move"}
        => (l.args.bucket \in ExistingBuckets => l.pre # NoObj)

\* C11 as stated: an operation of the adapter that names a bucket which does
\* not exist (for copy and move: on either side) fails with BucketNotFound
\* and leaves the store as it was.
C11_AbsentBucket ==
    [][(/\ last'.op \in BucketOps
        /\ NamesAbsentBucket(last')
        /\ Served(last')
        /\ OtherwiseSound(last'))
       => (last'.exc = "BucketNotFound" /\ store' = store)]_vars

\* The operations that read an object of the store.
SourceOps == {"read", "download", "copy", "move"}

\* C12: read, download, copy and move of a key that does not exist in an
\* existing bucket fail with ObjectNotFound and leave the store (and the
\* local files) as they were, whenever the provider serves the request and,
\* for download, the transfer configuration passes its validation.
C12_AbsentKey ==
    [][(/\ last'.op \in SourceOps
        /\ last'.args.bucket \in ExistingBuckets
        /\ last'.pre = NoObj
        /\ Served(last')
        /\ (last'.op = "download" /\ Truthy(last'.args.configuration))
              => Conforms(S3_TRANSFER_SCHEMA, last'.args.configuration.d))
       => /\ last'.exc = "ObjectNotFound"
          /\ store' = store
          /\ fs' = fs]_vars

\* A key that is not there was asked for in a bucket that holds another
\* object: by download, and by move to a bucket that does not exist.
C12_Witness ==
    /\ last.op \in {"download", "move"}
    /\ last.args.bucket \in ExistingBuckets
    /\ last.pre = NoObj
    /\ Stored(store) # {}
    /\ last.exc = "ObjectNotFound"
    /\ last.op = "move" => last.args.bucket_destination = "nb"

\* C13 as stated: delete_object of a key that does not exist in an existing
\* bucket raises ObjectNotFound (the provider serving the request).
C13_DeleteAbsentKey ==
    (/\ last.op = "delete_object"
     /\ last.args.bucket \in ExistingBuckets
     /\ last.pre = NoObj
     /\ Served(last))
    => last.exc = "ObjectNotFound"

\* The error kinds of the package (exceptions.py), the builtin kinds its
\* operations document, and the generic kind an unclassified error is
\* raised as.
Taxonomy ==
    {"ConfigurationError", "ObjectNotFound", "BucketNotFound", "DestinationPathError",
     "DestinationPathPermissionsError", "DataStructureError", "DatabaseConnectionError",
     "DatabaseError", "ConnectionError", "TypeError", "FileNotFoundError", "Exception"}

\* The exception types of the SDK.
NativeErrors ==
    {"ClientError", "ParamValidationError", "NoCredentialsError", "S3UploadFailedError",
     "NoSuchBucket", "NoSuchKey", "InvalidBucketName", "InvalidRequest", "AccessDenied",
     "404"}

\* C14 as stated: a failure of an operation of the S3 adapter reaches the
\* caller as an error of the taxonomy, never as an exception type of the SDK.
C14_NoNativeError ==
    (last.op \in BucketOps /\ last.exc # "none")
    => /\ last.exc \in Taxonomy
       /\ last.exc \notin NativeErrors

\* The errors of the provider the adapter has a kind of its own for.
Classified == {"NoSuchBucket", "NoSuchKey", "InvalidBucketName", "InvalidAccessKeyId"}

\* The provider answered a call of l with an error the adapter has no kind
\* for (for a listing: to the request of a page that exists).
HitUnclassified(l) ==
    /\ l.args.faults[1] \notin Classified \cup {"none"}
    /\ l.op \in {"list_objects", "list_objects_size"}
        => /\ l.args.bucket \in ExistingBuckets
           /\ l.args.failAt
                \in 1..NumPages(Len(Contents(store, l.args.bucket, l.args.prefix)))

\* C15 as stated: when the SDK call of list_buckets, list_objects or
\* list_objects_size raises an error the adapter does not classify, the
\* operation raises an error and returns no normal result.
C15_NothingSwallowed ==
    (/\ last.op \in {"list_buckets", "list_objects", "list_objects_size"}
     /\ HitUnclassified(last))
    => last.exc # "none"

C17_AtMostMaxObjects ==
    (/\ last.op \in {"list_objects", "list_objects_size"}
     /\ last.args.max_objects # 0)
    => Len(last.listing) <= last.args.max_objects

\* C26 as stated: list_objects of the GCS adapter on a bucket that does not
\* exist (the lookup returns no bucket) ends in BucketNotFound.
C26_GcsBucketNotFound ==
    (/\ last.op = "gcs_list_objects"
     /\ Served(last)
     /\ last.args.bucket \notin ExistingBuckets)
        => last.exc = "BucketNotFound"

\* C27 as stated: the configuration mapping the caller hands to
\* assume_role, copy or move has the same keys and values when the call has
\* returned or raised as it had before.
C27_ConfigurationUntouched ==
    (/\ last.op \in {"assume_role", "copy", "move"}
     /\ last.args.configuration.given)
        => last.cfg = last.args.configuration.d

\* The provider calls of an operation in the order it issues them.
ProviderCalls(op) ==
    CASE op = "read" -> <<"get_object">>
      [] op = "write" -> <<"put_object">>
      [] op = "copy" -> <<"get_object", "copy_object">>
      [] op = "move" -> <<"get_object", "copy_object", "delete_object">>
      [] op = "delete_object" -> <<"delete_object">>
      [] op = "delete_objects" -> <<"delete_objects">>
      [] OTHER -> <<>>

\* C28: one invocation of read, write, copy, move, delete_object or
\* delete_objects issues its provider calls at most once each and in the
\* order given (the calls issued are a prefix of that sequence), all of
\* them when it returns without error; the call the provider answers with
\* an error, and the call an exception is raised after, is the last one.
C28_NoRetries ==
    last.op \in {"read", "write", "copy", "move", "delete_object", "delete_objects"}
      => LET expected == ProviderCalls(last.op)
             apis == [i \in DOMAIN calls |-> calls[i].api]
         IN /\ Len(apis) <= Len(expected)
            /\ apis = SubSeq(expected, 1, Len(apis))
            /\ \A i \in 1..Len(apis) : last.args.faults[i] # "none" => Len(apis) = i
            /\ (last.exc # "none" /\ last.origin \in Range(expected))
                  => (Len(apis) >= 1 /\ apis[Len(apis)] = last.origin)
            /\ last.exc = "none" => apis = expected

\* A move whose copy request the provider refused: the object was read,
\* the copy was asked for once, the delete never.
C28_Witness ==
    /\ last.op = "move"
    /\ last.args.faults[2] # "none"
    /\ last.exc # "none"
    /\ Len(calls) = 2
    /\ calls[2].api = "copy_object"

\* C29 as stated: after a move that returns without error the content
\* moved is readable at the effective destination, also when the effective
\* destination is the source itself.
C29_MoveKeepsObject ==
    (last.op = "move" /\ last.exc = "none")
        => /\ last.pre # NoObj
           /\ ReadsBack(store, Destination(last)[1], Destination(last)[2], last.pre.body)

\* C30: copy looks the source up before it writes.  A copy whose source
\* bucket or key is absent raises, issues no copy request and leaves the
\* store, the destination bucket with it, as it was; and a copy whose copy
\* request fails because the destination bucket is absent leaves the store,
\* the source object with it, as it was.
C30_CopyReadsFirst ==
    [][last'.op = "copy"
         => LET a == last'.args
                apis == {calls'[i].api : i \in DOMAIN calls'}
            IN /\ ObjectAt(store, a.bucket, a.path) = NoObj
                    => /\ last'.exc # "none"
                       /\ "copy_object" \notin apis
                       /\ store' = store
               /\ (/\ ObjectAt(store, a.bucket, a.path) # NoObj
                   /\ a.bucket_destination \notin ExistingBuckets)
                    => /\ last'.exc # "none"
                       /\ store' = store
                       /\ (Served(last') => /\ last'.exc = "BucketNotFound"
                                            /\ last'.origin = "copy_object")]_vars

\* A copy of an object that is there to a bucket that is not.
C30_Witness ==
    /\ last.op = "copy"
    /\ last.pre # NoObj
    /\ last.args.bucket_destination \notin ExistingBuckets
    /\ last.exc = "BucketNotFound"
    /\ last.origin = "copy_object"
    /\ ObjectAt(store, last.args.bucket, last.args.path) = last.pre

----------------------------------------------------------------------------
(* Properties of the database clients (SpecDb).                             *)

\* C18: the construction of the database Client (aws/redshift.py) ends in
\* exactly one of three ways: ConfigurationError when the configuration
\* breaks the schema (nothing was sent to the server), DatabaseConnectionError
\* when the configuration is valid and the connection is refused, a
\* connected client when it is accepted; when it ends in an error no client
\* comes of it (no session is set up, the client variable is as before).
C18_ConstructionOutcomes ==
    [][last'.op = "DbClient"
       => LET valid == Conforms(SCHEMA, last'.args.configuration.d)
              connects == last'.args.accepted
              apis == {calls'[i].api : i \in DOMAIN calls'}
          IN /\ ~valid => (last'.exc = "ConfigurationError" /\ calls' = <<>>)
             /\ (valid /\ ~connects) => last'.exc = "DatabaseConnectionError"
             /\ (valid /\ connects)
                  => /\ last'.exc = "none"
                     /\ dbclient'.state = "connected"
                     /\ dbclient'.autocommit = last'.args.autocommit
             /\ last'.exc # "none"
                  => /\ dbclient' = dbclient
                     /\ db' = db
                     /\ "set_session" \notin apis]_vars

\* A connection was refused while no client existed: there is still none.
C18_Witness ==
    /\ last.op = "DbClient"
    /\ last.exc = "DatabaseConnectionError"
    /\ dbclient.state = "disconnected"

\* The client is one of aws/redshift.py constructed with autocommit = False.
Manual(c) == c.kind = "redshift" /\ ~c.autocommit

\* What a query_fetch of the table returns.
Fetched(c, d) == query_fetch(c, d, [kind |-> "select", row |-> 0])

\* C19: on a client constructed with autocommit = False, mutations by
\* query_cud followed by rollback() leave the database as it was before the
\* first of them, as a query_fetch then shows: outside a transaction the
\* session sees the committed rows, a query_cud changes what the session
\* sees but never the committed rows, and rollback() takes the session back
\* to the committed rows, which the next query_fetch returns.
C19_RollbackRestores ==
    /\ [](db.status = "idle" => db.working = db.committed)
    /\ []((last.op = "rollback" /\ last.exc = "none" /\ Manual(dbclient))
            => /\ db.committed = last.pre.committed
               /\ db.working = last.pre.committed
               /\ Fetched(dbclient, db).exc = "none"
               /\ Range(Fetched(dbclient, db).listing) = last.pre.committed)
    /\ [][(last'.op = "query_cud" /\ Manual(dbclient))
            => db'.committed = db.committed]_vars

\* Work not committed was rolled back.
C19_Witness ==
    /\ last.op = "rollback"
    /\ last.exc = "none"
    /\ Manual(dbclient)
    /\ last.pre.working # last.pre.committed
    /\ last.pre.committed # {}
    /\ db.working = last.pre.committed

\* C20 as stated, for the clients of aws/redshift.py and database/postgres.py:
\* on a client constructed with autocommit disabled query_cud issues no
\* commit and leaves the committed rows as they are, and the committed rows
\* change in no step but a commit(); on a client constructed with autocommit
\* enabled the rows a query_cud has written are committed when it returns;
\* and the session runs in the mode the constructor was given.
C20_AutocommitGates ==
    /\ [](dbclient.state = "connected" => dbclient.session = dbclient.autocommit)
    /\ [][/\ (last'.op = "query_cud" /\ ~dbclient.autocommit)
                => /\ db'.committed = db.committed
                   /\ "commit" \notin {calls'[i].api : i \in DOMAIN calls'}
          /\ (db'.committed # db.committed /\ ~dbclient.autocommit)
                => last'.op = "commit"
          /\ (last'.op = "query_cud" /\ dbclient.autocommit /\ last'.exc = "none")
                => db'.committed = db'.working]_vars

\* The operations of a client object.
ClientOps == {"query_fetch", "query_cud", "commit", "rollback", "close"}

\* C21: the closed state of the database Client is terminal: no operation
\* on a closed client (query_fetch, query_cud, commit, rollback, close)
\* takes it back to connected, and every query_fetch and query_cud on a
\* closed client ends in an error, returns no rows and leaves the database
\* as it is.
C21_ClosedIsTerminal ==
    [][(dbclient.state = "closed" /\ last'.op \in ClientOps)
         => /\ dbclient'.state = "closed"
            /\ last'.op \in {"query_fetch", "query_cud"}
                 => /\ last'.exc # "none"
                    /\ last'.listing = <<>>
                    /\ db' = db]_vars

\* A query on a closed client of aws/redshift.py, while the table has rows.
C21_Witness ==
    /\ last.op = "query_fetch"
    /\ dbclient.kind = "redshift"
    /\ dbclient.state = "closed"
    /\ last.exc = "DatabaseError"
    /\ db.committed # {}

\* The operations that reach the database.
DbOps == {"query_fetch", "query_cud", "write_batch", "commit", "rollback"}

\* C22 as stated: whenever an operation on a connected client fails
\* (query_fetch, query_cud, write_batch, commit, rollback), what reaches
\* the caller is DatabaseError, never an exception of psycopg2 or any other.
C22_FailuresAreDatabaseError ==
    [][(dbclient.state = "connected" /\ last'.op \in DbOps)
          => last'.exc \in {"none", "DatabaseError"}]_vars

\* The data is a list of flat mappings that all have the same keys.
Uniform(data) ==
    /\ data.array
    /\ Len(data.items) >= 1
    /\ data.items[1] \in {"flat", "wide"}
    /\ \A i \in DOMAIN data.items : data.items[i] = data.items[1]

\* C23 as stated: write_batch of data that is not a list of flat mappings
\* with the same keys ends in DataStructureError with no statement sent and
\* the table as it was; of data that is, it leaves every row in the table
\* when it returns.
C23_WriteBatchChecksData ==
    [][last'.op = "write_batch"
         => /\ ~Uniform(last'.args.rows)
                 => /\ last'.exc = "DataStructureError"
                    /\ calls' = <<>>
                    /\ db' = db
            /\ (Uniform(last'.args.rows) /\ last'.exc = "none")
                 => (1..Len(last'.args.rows.items)) \subseteq db'.working]_vars

----------------------------------------------------------------------------
(* Properties of connection_retry (SpecRetry).                              *)

\* The invocations of a call of the wrapper that raised.
Failed(r) == {k \in 1..r.invoked : func(r.plan, k) \notin Returns}

\* C24 as stated: the function is invoked at most max_attempts times; the
\* wrapper returns what the first invocation that does not raise returns
\* and invokes no further; when all max_attempts invocations raise, it
\* returns None and no exception reaches the caller.
C24_RetryAsStated ==
    retried.called
      => /\ retried.invoked <= retried.max_attempts
         /\ \A k \in 1..retried.invoked :
                func(retried.plan, k) \in Returns
                  => /\ retried.invoked = k
                     /\ retried.exc = "none"
                     /\ retried.result = func(retried.plan, k)
         /\ Failed(retried) = 1..retried.max_attempts
                  => /\ retried.exc = "none"
                     /\ retried.result = "None"

\* C24, amended: as stated where to raise is to raise an exception derived
\* from Exception; an exception that is not (SystemExit, KeyboardInterrupt)
\* ends the wrapper at the invocation that raised it and reaches the
\* caller.  After every invocation that raised an Exception the wrapper
\* has slept, after the last one too.
C24_RetryCatchesExceptions ==
    retried.called
      => LET caught == {k \in 1..retried.invoked : func(retried.plan, k) = "Exception"}
         IN /\ retried.invoked <= retried.max_attempts
            /\ \A k \in 1..retried.invoked :
                   /\ func(retried.plan, k) \in Returns
                        => /\ retried.invoked = k
                           /\ retried.exc = "none"
                           /\ retried.result = func(retried.plan, k)
                   /\ func(retried.plan, k) = "SystemExit"
                        => /\ retried.invoked = k
                           /\ retried.exc = "SystemExit"
                   /\ k < retried.invoked => func(retried.plan, k) = "Exception"
            /\ caught = 1..retried.max_attempts
                     => /\ retried.exc = "none"
                        /\ retried.result = "None"
            /\ retried.exc \in {"none", "SystemExit"}
            /\ (retried.slept = 0) = (caught = {})

\* All of three attempts raised an Exception: None was returned.
C24_Witness ==
    /\ retried.called
    /\ retried.max_attempts = MaxAttempts
    /\ retried.invoked = MaxAttempts
    /\ Failed(retried) = 1..MaxAttempts
    /\ retried.exc = "none"
    /\ retried.result = "None"

----------------------------------------------------------------------------
(* Properties of assume_role (SpecConfig).                                  *)

\* The provider rejects the credentials or the role.
Rejections == {"InvalidClientTokenId", "AccessDenied", "NoCredentialsError"}

\* C25 as stated: assume_role ends in ConfigurationError when the
\* configuration breaks the schema, in a connection error when the provider
\* rejects the credentials or the role, or returns a mapping with exactly
\* the keys aws_access_key_id, aws_secret_access_key, aws_session_token;
\* it ends in no other error.
C25_AssumeRoleOutcomes ==
    last.op = "assume_role"
      => LET valid == Conforms(CONFIG_SCHEMA, last.args.configuration.d)
             answer == last.args.faults[1]
         IN /\ ~valid => last.exc = "ConfigurationError"
            /\ (valid /\ answer \in Rejections) => last.exc = "ConnectionError"
            /\ (valid /\ answer = "ok")
                 => (last.exc = "none" /\ last.listing = TempCredentials)
            /\ last.exc \in {"none", "ConfigurationError", "ConnectionError"}

====
